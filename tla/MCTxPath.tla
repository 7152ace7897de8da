------------------------------ MODULE MCTxPath ------------------------------
(***************************************************************************)
(* Threads and calls for TxPath: the application and the receive thread,   *)
(* whose callback makes requests too.                                      *)
(***************************************************************************)
EXTENDS TxPath

A == 65
B == 66
Long == [i \in 1 .. 8 |-> A]

Empty == [client_id |-> <<A>>, will_topic |-> <<>>, will_msg |-> <<>>, qos |-> 1,
          retain |-> 1, username |-> <<>>, password |-> <<>>, clean |-> TRUE]
WithWill == [Empty EXCEPT !.will_topic = <<A>>, !.will_msg = <<B>>]
WithUser == [Empty EXCEPT !.username = <<B>>, !.password = <<A>>]
\* More than one length byte can say.
Full == [WithWill EXCEPT !.username = <<B>>, !.password = <<A>>]
\* A password is sent only with a user name; an empty identifier is accepted, NULL
\* is not.
NoName == [Empty EXCEPT !.client_id = <<>>, !.password = <<A>>]
BadName == [Empty EXCEPT !.client_id = <<1>>]
NullName == [Empty EXCEPT !.client_id = NULL]
Connects ==
  [fn : {"connect"}, conf : {WithWill, WithUser, Full, NoName, BadName, NullName}]

Publish(q, topic, msg) ==
  [fn |-> "publish", qos |-> q, retain |-> 1, dup |-> 0, topic |-> topic, msg |-> msg]
Topic(s) == [topic |-> s, qos |-> 1]
Subscribe == [fn |-> "subscribe", topics |-> <<Topic(<<A>>), Topic(<<B, A>>)>>]
Unsubscribe == [fn |-> "unsubscribe", topics |-> <<Topic(<<B>>), Topic(<<A>>)>>]

AppCalls == Connects \cup {[fn |-> "disconnect"], Unsubscribe, Publish(2, <<A>>, Long),
                           Publish(0, Long, Long)}
RcvCalls == [fn : {"puback", "pubrec"}, id : {1}]
            \cup [fn : {"pubrel", "pubcomp"}, id : {2}] \cup {Subscribe}
MCCalls == [app |-> AppCalls, rcv |-> RcvCalls]
MCThread == {"app", "rcv"}

\* A view for TLC: no action reads sent or drawn, and of the two only this is
\* looked at by the properties, or can be later.
Judged ==
  <<shared, cursor, history, todo, made, outside, Intact, IdentsDistinct,
    {drawn[i] : i \in DOMAIN drawn}>>
=============================================================================
