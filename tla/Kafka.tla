------------------------------- MODULE Kafka -------------------------------
(***************************************************************************)
(* A Kafka topic as the services use it.                                   *)
(*                                                                         *)
(* Every producer is a kafka-go Writer with Async = TRUE, RequireOne and   *)
(* the LeastBytes balancer: Publish returns before the broker answers, an  *)
(* asynchronous failure is only logged, a retried batch may be stored      *)
(* twice, and messages of one payment or tenant go to any partition.       *)
(* Every consumer calls ReadMessage in a consumer group: it returns one    *)
(* message and commits its offset.                                         *)
(*                                                                         *)
(* A topic is therefore the SET of the messages of which an unread copy    *)
(* exists: no order between messages, a message that is written may be     *)
(* lost, and reading one may leave another copy behind.                    *)
(***************************************************************************)

\* The contents a topic may have once Publish(m) has returned.
Enqueued(topic, m) == {topic, topic \cup {m}}

\* The contents a topic may have once ReadMessage has returned m.
Delivered(topic, m) == {topic \ {m}, topic}

=============================================================================
