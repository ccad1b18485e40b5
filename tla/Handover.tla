------------------------------ MODULE Handover ------------------------------
(***************************************************************************)
(* One handover (HI2 or HI3) of a mediator to a law enforcement agency     *)
(* (handover.c, and the handover part of lea_send_thread.c): records are   *)
(* consumed from a RabbitMQ queue of the mediator (mediator_rmq.c) into a  *)
(* local buffer, sent, and acknowledged to RabbitMQ once the buffer is     *)
(* empty; keep-alives are sent and answered over the same connection.      *)
(* Records are numbered in the order in which they were published.         *)
(***************************************************************************)
EXTENDS Naturals, Sequences, FiniteSets

CONSTANTS
    MaxRecords,  \* bound: records published
    MaxConsume,  \* messages read by one call of the consume functions (32)
    MaxKA,       \* bound: keep-alives
    MaxBuf,      \* bound: records in the export buffer
    MaxWire,     \* bound: messages on their way to the agency
    KeepAlives,  \* keepalivefreq is not 0
    KaWait,      \* keepalivewait is not 0: a response is required
    Faults       \* what may fail, see FaultNames

FaultNames == {"send", "partial_record", "partial_ka", "ka_error", "join", "consume", "ack", "agency"}

ASSUME HandoverAssumption ==
    /\ MaxRecords \in Nat /\ MaxConsume \in Nat \ {0} /\ MaxKA \in Nat
    /\ MaxBuf \in Nat /\ MaxWire \in Nat
    /\ KeepAlives \in BOOLEAN /\ KaWait \in BOOLEAN
    /\ Faults \subseteq FaultNames

VARIABLES
    pc,          \* the event handler of the thread: "idle", "records" or "consumed"
    published,   \* records published to the queue so far
    queue,       \* RabbitMQ: records waiting to be delivered
    unacked,     \* RabbitMQ: records delivered on this connection, with their tags
    lasttag,     \* RabbitMQ: last delivery tag of this connection
    joined,      \* rmq_consumer is not NULL
    registered,  \* rmq_registered
    subscribed,  \* RabbitMQ: the connection consumes from the queue
    nextack,     \* next_rmq_ack
    validack,    \* valid_rmq_ack
    buf,         \* the export buffer
    connected,   \* outev is not NULL
    pendingka,   \* pending_ka: "none", "whole" or "part"
    awaiting,    \* the timer aliverespev is running
    kaseq,       \* lastkaseq
    kafailed,    \* sending the keep-alive failed in this call of the handler
    wire,        \* messages on their way to the agency; 0 is a keep-alive
    answers,     \* keep-alive responses on their way to the mediator
    cut,         \* what the last send left incomplete: "nothing", "record" or "ka"
    garbled,     \* history: something else was sent inside a message
    handed,      \* history: records that were sent completely at least once
    received     \* history: records that reached the agency

rmq    == <<queue, unacked, lasttag, joined, registered, subscribed>>
acking == <<nextack, validack>>
ka     == <<pendingka, awaiting, kaseq, kafailed>>
link   == <<connected, wire, answers, cut, garbled, received>>
vars   == <<pc, published, rmq, acking, buf, ka, link, handed>>

Init ==
    /\ pc = "idle"
    /\ published = 0 /\ queue = <<>> /\ unacked = <<>> /\ lasttag = 0
    /\ joined = FALSE /\ registered = FALSE /\ subscribed = FALSE
    /\ nextack = 0 /\ validack = FALSE
    /\ buf = <<>>
    /\ connected = FALSE
    /\ pendingka = "none" /\ awaiting = FALSE /\ kaseq = 0 /\ kafailed = FALSE
    /\ wire = <<>> /\ answers = <<>> /\ cut = "nothing" /\ garbled = FALSE
    /\ handed = {} /\ received = {}

-----------------------------------------------------------------------------
(* RabbitMQ and the agency.                                                 *)

(* A receive thread of the mediator publishes a record.                     *)
publish ==
    /\ published < MaxRecords
    /\ published' = published + 1
    /\ queue' = Append(queue, published + 1)
    /\ UNCHANGED <<pc, unacked, lasttag, joined, registered, subscribed, acking, buf, ka, link, handed>>

(* The agency reads a message, and answers a keep-alive.                    *)
AgencyReads ==
    /\ wire # <<>>
    /\ wire' = Tail(wire)
    /\ IF Head(wire) = 0
       THEN answers' = Append(answers, kaseq - Cardinality({i \in 2..Len(wire) : wire[i] = 0}))
            /\ UNCHANGED received
       ELSE received' = received \cup {Head(wire)} /\ UNCHANGED answers
    /\ UNCHANGED <<pc, published, rmq, acking, buf, ka, connected, cut, garbled, handed>>

(* What RabbitMQ does with a connection that is closed: the records that    *)
(* were not acknowledged go back to their places.                           *)
Requeued == [i \in 1..Len(unacked) |-> unacked[i].rec] \o queue

(* Variant: the consumer is dropped and stays registered.                   *)
ResetStaysRegistered ==
    /\ queue' = Requeued
    /\ unacked' = <<>> /\ lasttag' = 0
    /\ joined' = FALSE /\ subscribed' = FALSE
    /\ validack' = FALSE
    /\ UNCHANGED <<nextack, registered>>

reset_handover_rmq ==
    /\ queue' = Requeued
    /\ unacked' = <<>> /\ lasttag' = 0
    /\ joined' = FALSE /\ registered' = FALSE /\ subscribed' = FALSE
    /\ validack' = FALSE
    /\ UNCHANGED nextack

(* Variant: pending_ka is freed and not set to NULL.                        *)
DisconnectLeavesKeepAlive ==
    /\ connected' = FALSE
    /\ pendingka' = IF pendingka = "none" THEN "none" ELSE "freed"
    /\ awaiting' = FALSE
    /\ wire' = <<>> /\ answers' = <<>> /\ cut' = "nothing"
    /\ reset_handover_rmq
    /\ UNCHANGED <<kaseq, garbled, received>>

(* Whatever is on its way is lost with the connection; the buffer is kept.  *)
disconnect_handover ==
    /\ connected' = FALSE
    /\ pendingka' = "none" /\ awaiting' = FALSE
    /\ wire' = <<>> /\ answers' = <<>> /\ cut' = "nothing"
    /\ reset_handover_rmq
    /\ UNCHANGED <<kaseq, garbled, received>>

-----------------------------------------------------------------------------
(* The top of the loop of run_agency_thread.                                *)

connect_mediator_handover ==
    /\ pc = "idle" /\ ~connected
    /\ connected' = TRUE
    /\ UNCHANGED <<pc, published, rmq, acking, buf, ka, wire, answers, cut, garbled, handed, received>>

(* join is whether RabbitMQ accepts the connection, subscribe whether the   *)
(* queue of the LIID could be declared and consumed from.                   *)
register_handover_RMQ_all(join, subscribe) ==
    /\ pc = "idle" /\ connected /\ ~registered
    /\ join \/ "join" \in Faults
    /\ subscribe \/ "join" \in Faults
    /\ joined' = (joined \/ join)
    /\ registered' = TRUE
    /\ subscribed' = (joined' /\ subscribe)
    /\ UNCHANGED <<pc, published, queue, unacked, lasttag, acking, buf, ka, link, handed>>

-----------------------------------------------------------------------------
(* MED_EPOLL_LEA with EPOLLOUT.                                             *)

Sends(msgs, left, what) ==
    /\ Len(wire) + Len(msgs) <= MaxWire
    /\ wire' = wire \o msgs
    /\ garbled' = (garbled \/ cut \notin {"nothing", what})
    /\ cut' = IF left THEN what ELSE "nothing"

(* Variant: the timer for the response is not started.                      *)
KeepAliveUntimed ==
    /\ pc = "idle" /\ connected /\ pendingka # "none"
    /\ Sends(<<0>>, FALSE, "ka")
    /\ pendingka' = "none"
    /\ pc' = "records"
    /\ kafailed' = FALSE
    /\ UNCHANGED <<published, rmq, acking, buf, awaiting, kaseq, connected, answers, handed, received>>

(* xmit_handover_keepalive; the records wait for the response.              *)
xmit_handover_keepalive ==
    /\ pc = "idle" /\ connected /\ pendingka # "none"
    /\ Sends(<<0>>, FALSE, "ka")
    /\ pendingka' = "none"
    /\ awaiting' = KaWait
    /\ pc' = IF KaWait THEN "idle" ELSE "records"
    /\ kafailed' = FALSE
    /\ UNCHANGED <<published, rmq, acking, buf, kaseq, connected, answers, handed, received>>

xmit_handover_keepalive_partly ==
    /\ "partial_ka" \in Faults
    /\ pc = "idle" /\ connected /\ pendingka # "none"
    /\ Sends(<<>>, TRUE, "ka")
    /\ pendingka' = "part"
    /\ pc' = IF awaiting THEN "idle" ELSE "records"
    /\ kafailed' = FALSE
    /\ UNCHANGED <<published, rmq, acking, buf, awaiting, kaseq, connected, answers, handed, received>>

(* The error is returned, and the records are tried all the same.           *)
xmit_handover_keepalive_error ==
    /\ "ka_error" \in Faults
    /\ pc = "idle" /\ connected /\ pendingka # "none"
    /\ pc' = "records"
    /\ kafailed' = TRUE
    /\ UNCHANGED <<published, rmq, acking, buf, pendingka, awaiting, kaseq, link, handed>>

NoKeepAliveDue ==
    /\ pc = "idle" /\ connected /\ pendingka = "none" /\ ~awaiting
    /\ pc' = "records"
    /\ kafailed' = FALSE
    /\ UNCHANGED <<published, rmq, acking, buf, pendingka, awaiting, kaseq, link, handed>>

(* send_available_rmq_records, all of the buffer: acknowledge what was      *)
(* consumed, if there is a tag to do so.                                    *)
send_available_rmq_records ==
    /\ pc \in {"records", "consumed"} /\ registered /\ buf # <<>>
    /\ Sends(buf, FALSE, "record")
    /\ handed' = handed \cup {buf[i] : i \in 1..Len(buf)}
    /\ buf' = <<>>
    /\ unacked' = IF validack THEN SelectSeq(unacked, LAMBDA d : d.tag > nextack) ELSE unacked
    /\ validack' = FALSE
    /\ pc' = "idle"
    /\ UNCHANGED <<published, queue, lasttag, joined, registered, subscribed, nextack, ka,
                   connected, answers, received>>

(* The same when the acknowledgement fails.                                 *)
send_available_rmq_records_no_ack ==
    /\ "ack" \in Faults
    /\ pc \in {"records", "consumed"} /\ registered /\ buf # <<>> /\ validack
    /\ Sends(buf, FALSE, "record")
    /\ handed' = handed \cup {buf[i] : i \in 1..Len(buf)}
    /\ buf' = <<>>
    /\ reset_handover_rmq
    /\ pc' = "idle"
    /\ UNCHANGED <<published, ka, connected, answers, received>>

(* Variant: what was consumed is acknowledged after a partial send too.     *)
PartlySentIsAcked(n, left) ==
    /\ "partial_record" \in Faults
    /\ pc \in {"records", "consumed"} /\ registered /\ n < Len(buf)
    /\ left \/ n > 0
    /\ Sends(SubSeq(buf, 1, n), left, "record")
    /\ handed' = handed \cup {buf[i] : i \in 1..n}
    /\ buf' = SubSeq(buf, n + 1, Len(buf))
    /\ unacked' = IF validack THEN SelectSeq(unacked, LAMBDA d : d.tag > nextack) ELSE unacked
    /\ pc' = "idle"
    /\ UNCHANGED <<published, queue, lasttag, joined, registered, subscribed, acking, ka,
                   connected, answers, received>>

(* The socket takes the first n records, and a part of the next if left.    *)
send_available_rmq_records_partly(n, left) ==
    /\ "partial_record" \in Faults
    /\ pc \in {"records", "consumed"} /\ registered /\ n < Len(buf)
    /\ left \/ n > 0
    /\ Sends(SubSeq(buf, 1, n), left, "record")
    /\ handed' = handed \cup {buf[i] : i \in 1..n}
    /\ buf' = SubSeq(buf, n + 1, Len(buf))
    /\ pc' = "idle"
    /\ UNCHANGED <<published, rmq, acking, ka, connected, answers, received>>

send_available_rmq_records_error ==
    /\ "send" \in Faults
    /\ pc \in {"records", "consumed"} /\ registered /\ buf # <<>>
    /\ disconnect_handover
    /\ kafailed' = kafailed
    /\ pc' = "idle"
    /\ UNCHANGED <<published, buf, handed>>

(* Variant: what is read goes to the front of the buffer.                   *)
ConsumesToFront(n) ==
    /\ n <= Len(queue) /\ Len(buf) + n <= MaxBuf
    /\ n = 0 \/ (joined /\ subscribed)
    /\ buf' = SubSeq(queue, 1, n) \o buf
    /\ nextack' = IF n > 0 THEN lasttag + n ELSE nextack

(* n messages are read from RabbitMQ into the buffer.                       *)
Consumes(n) ==
    /\ n <= Len(queue) /\ Len(buf) + n <= MaxBuf
    /\ n = 0 \/ (joined /\ subscribed)
    /\ buf' = buf \o SubSeq(queue, 1, n)
    /\ nextack' = IF n > 0 THEN lasttag + n ELSE nextack

Delivered(n) ==
    /\ queue' = SubSeq(queue, n + 1, Len(queue))
    /\ unacked' = unacked \o [i \in 1..n |-> [rec |-> queue[i], tag |-> lasttag + i]]
    /\ lasttag' = lasttag + n
    /\ UNCHANGED <<joined, registered, subscribed>>

(* consume_available_rmq_records: only when the buffer is empty.            *)
consume_available_rmq_records(n) ==
    /\ pc = "records" /\ registered /\ buf = <<>>
    /\ n <= MaxConsume
    /\ Consumes(n) /\ Delivered(n)
    /\ validack' = (validack \/ n > 0)
    /\ pc' = "consumed"
    /\ UNCHANGED <<published, ka, link, handed>>

(* Reading fails after n messages: they stay in the buffer, and RabbitMQ    *)
(* has them too.                                                            *)
consume_available_rmq_records_error(n) ==
    /\ "consume" \in Faults
    /\ pc = "records" /\ registered /\ joined /\ buf = <<>>
    /\ n < MaxConsume
    /\ n <= Len(queue) /\ n <= MaxBuf /\ (n = 0 \/ subscribed)
    /\ buf' = buf \o SubSeq(queue, 1, n)
    /\ reset_handover_rmq
    /\ pc' = "idle"
    /\ UNCHANGED <<published, ka, link, handed>>

NothingToSend ==
    /\ pc # "idle"
    /\ ~registered \/ (pc = "consumed" /\ buf = <<>>)
    /\ pc' = "idle"
    /\ UNCHANGED <<published, rmq, acking, buf, ka, link, handed>>

-----------------------------------------------------------------------------
(* The other events.                                                        *)

(* MED_EPOLL_RMQCHECK_TIMER: check_handover_rmq_status reads one message.   *)
check_handover_rmq_status ==
    /\ pc = "idle" /\ queue # <<>>
    /\ Consumes(1) /\ Delivered(1)
    /\ UNCHANGED <<pc, published, validack, ka, link, handed>>

check_handover_rmq_status_error ==
    /\ "consume" \in Faults
    /\ pc = "idle" /\ joined
    /\ reset_handover_rmq
    /\ UNCHANGED <<pc, published, buf, ka, link, handed>>


(* Variant: a keep-alive is made although records are under way.            *)
KeepAliveInRecords ==
    /\ KeepAlives
    /\ pc = "idle" /\ connected
    /\ pendingka = "none" /\ ~awaiting
    /\ kaseq < MaxKA
    /\ pendingka' = "whole"
    /\ kaseq' = kaseq + 1
    /\ UNCHANGED <<pc, published, rmq, acking, buf, awaiting, kafailed, link, handed>>

(* MED_EPOLL_KA_TIMER.                                                      *)
trigger_handover_keepalive ==
    /\ KeepAlives
    /\ pc = "idle" /\ connected
    /\ pendingka = "none" /\ ~awaiting /\ buf = <<>>
    /\ kaseq < MaxKA
    /\ pendingka' = "whole"
    /\ kaseq' = kaseq + 1
    /\ UNCHANGED <<pc, published, rmq, acking, buf, awaiting, kafailed, link, handed>>

Drops ==
    /\ disconnect_handover
    /\ kafailed' = FALSE
    /\ UNCHANGED <<pc, published, buf, handed>>

(* MED_EPOLL_KA_RESPONSE_TIMER.                                             *)
trigger_handover_ka_failure == pc = "idle" /\ awaiting /\ Drops

(* The agency closes the connection or sends something unexpected, or the   *)
(* main thread wants the handovers to be reconnected.                       *)
AgencyFails == "agency" \in Faults /\ pc = "idle" /\ connected /\ Drops

(* A keep-alive response arrives.                                           *)
receive_handover ==
    /\ pc = "idle" /\ connected /\ answers # <<>> /\ Head(answers) = kaseq
    /\ answers' = Tail(answers)
    /\ awaiting' = FALSE
    /\ UNCHANGED <<pc, published, rmq, acking, buf, pendingka, kaseq, kafailed,
                   connected, wire, cut, garbled, handed, received>>

receive_handover_unexpected ==
    /\ pc = "idle" /\ connected /\ answers # <<>> /\ Head(answers) # kaseq
    /\ Drops

-----------------------------------------------------------------------------
Next ==
    \/ publish
    \/ AgencyReads
    \/ connect_mediator_handover
    \/ \E join, subscribe \in BOOLEAN : register_handover_RMQ_all(join, subscribe)
    \/ xmit_handover_keepalive
    \/ xmit_handover_keepalive_partly
    \/ xmit_handover_keepalive_error
    \/ NoKeepAliveDue
    \/ send_available_rmq_records
    \/ send_available_rmq_records_no_ack
    \/ \E n \in 0..MaxRecords, left \in BOOLEAN : send_available_rmq_records_partly(n, left)
    \/ send_available_rmq_records_error
    \/ \E n \in 0..MaxConsume : consume_available_rmq_records(n)
    \/ \E n \in 0..MaxConsume : consume_available_rmq_records_error(n)
    \/ NothingToSend
    \/ check_handover_rmq_status
    \/ check_handover_rmq_status_error
    \/ trigger_handover_keepalive
    \/ trigger_handover_ka_failure
    \/ AgencyFails
    \/ receive_handover
    \/ receive_handover_unexpected

Spec == Init /\ [][Next]_vars

(* What goes wrong outside of the mediator.                                 *)
Failure ==
    \/ send_available_rmq_records_error
    \/ send_available_rmq_records_no_ack
    \/ \E n \in 0..MaxConsume : consume_available_rmq_records_error(n)
    \/ check_handover_rmq_status_error
    \/ AgencyFails

(* The thread runs for ever.  At last RabbitMQ and the connection to the    *)
(* agency stay up and do not refuse for ever, and the agency reads what it  *)
(* is sent.                                                                 *)
Fairness ==
    /\ <>[][~Failure]_vars
    /\ WF_vars(AgencyReads)
    /\ SF_vars(connect_mediator_handover)
    /\ SF_vars(register_handover_RMQ_all(TRUE, TRUE))
    /\ SF_vars(xmit_handover_keepalive)
    /\ SF_vars(NoKeepAliveDue)
    /\ WF_vars(\E n \in 0..MaxConsume : consume_available_rmq_records(n))
    /\ SF_vars(send_available_rmq_records)
    /\ SF_vars(\E n \in 1..MaxConsume : consume_available_rmq_records(n))
    /\ WF_vars(NothingToSend)
    /\ SF_vars(receive_handover)
    /\ WF_vars(trigger_handover_ka_failure)

FairSpec == Spec /\ Fairness

-----------------------------------------------------------------------------
(* Properties.                                                              *)

Records == 1..MaxRecords
SetOf(s) == {s[i] : i \in DOMAIN s}

TypeOK ==
    /\ pc \in {"idle", "records", "consumed"}
    /\ published \in 0..MaxRecords
    /\ queue \in Seq(Records) /\ buf \in Seq(Records)
    /\ unacked \in Seq([rec : Records, tag : Nat])
    /\ lasttag \in Nat /\ nextack \in Nat /\ validack \in BOOLEAN
    /\ joined \in BOOLEAN /\ registered \in BOOLEAN /\ subscribed \in BOOLEAN
    /\ connected \in BOOLEAN
    /\ pendingka \in {"none", "whole", "part"}
    /\ awaiting \in BOOLEAN /\ kaseq \in 0..MaxKA /\ kafailed \in BOOLEAN
    /\ wire \in Seq({0} \cup Records) /\ answers \in Seq(0..MaxKA)
    /\ cut \in {"nothing", "record", "ka"} /\ garbled \in BOOLEAN
    /\ handed \subseteq Records /\ received \subseteq Records

InBroker == SetOf(queue) \cup {unacked[i].rec : i \in DOMAIN unacked}

(* RabbitMQ is rid of a record only after all of it has been written to a   *)
(* connection to the agency, however often connections to RabbitMQ and to   *)
(* the agency fail in between (send_available_rmq_records acknowledges      *)
(* "once the whole message set has been sent").                             *)
AcknowledgedWasSent == \A r \in 1..published : r \in InBroker \cup handed

(* Records are sent for the first time in the order they were published:    *)
(* whatever has to be sent again, no record overtakes one that was never    *)
(* sent.                                                                    *)
FirstSentInOrder == \A r \in handed : \A q \in 1..r : q \in handed

(* What the agency reads is a sequence of whole messages: no record starts  *)
(* inside a keep-alive and no keep-alive inside a record ("as long as we    *)
(* have an unanswered keep alive, hold off on sending any buffered          *)
(* records").                                                               *)
NotGarbled == ~garbled


(* An agency that answers every keep-alive once and in order is not         *)
(* disconnected because of an answer.                                       *)
AnswersAreExpected == answers # <<>> => Head(answers) = kaseq

(* A keep-alive that cannot be sent ends the connection ("something went    *)
(* wrong, disconnect and try again").                                       *)
FailedKeepAliveDisconnects == (pc = "idle" /\ kafailed) => ~connected

(* A record the mediator has accepted is stored or on its way until it has  *)
(* reached the agency ("ensure that the records are safely buffered on disk *)
(* whenever a handover is unavailable").                                    *)
NoRecordLost ==
    \A r \in 1..published : r \in InBroker \cup SetOf(buf) \cup SetOf(wire) \cup received

(* Every record that was published is sent in the end.                      *)
EventuallySent == \A r \in Records : published >= r ~> r \in handed
=============================================================================
