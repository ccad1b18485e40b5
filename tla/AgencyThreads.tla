---------------------------- MODULE AgencyThreads ----------------------------
(***************************************************************************)
(* The main thread of a mediator and the threads that send to the agencies *)
(* (mediator.c, lea_send_thread.c, liidmapping.c): how agencies and the    *)
(* intercepts (LIIDs) they are entitled to follow the instructions of the  *)
(* provisioner, while the provisioner, the handovers and the threads come  *)
(* and go.  An agency has one handover and an LIID one RabbitMQ queue      *)
(* here; HI2 and HI3 are treated alike by the code.  Handover looks inside *)
(* a handover.                                                             *)
(***************************************************************************)
EXTENDS Naturals, Sequences, FiniteSets

CONSTANTS
    Agencies, Liids,
    None,         \* no agency
    Events,       \* what may happen, see EventNames
    MaxMessages,  \* bound: messages from the provisioner and losses of it
    MaxRecords    \* bound: records published to each queue

EventNames == {"cease", "withdraw", "provisioner", "reload", "handover", "fatal"}

ASSUME AgencyAssumption ==
    /\ None \notin Agencies
    /\ Events \subseteq EventNames
    /\ MaxMessages \in Nat /\ MaxRecords \in Nat

VARIABLES
    prov,       \* main thread: connected to the provisioner
    joining,    \* main thread: waits in pthread_join for the thread of this agency
    table,      \* agency_threads.threads: agencies that have an entry
    thr,        \* the state of each thread, see Threads
    made,       \* records ever published to the queue of an LIID
    waiting,    \* RabbitMQ: records in the queue of an LIID
    announced,  \* history: agencies announced on this connection to the provisioner
    mapped,     \* history: agency of the last mapping sent for an LIID
    sent        \* messages so far

main == <<prov, joining, table, announced, mapped, sent>>
vars == <<main, thr, made, waiting>>

Msgs ==
    [type : {"halt", "shutdown", "update", "reload"}]
    \cup [type : {"remove"}, liid : Liids]
    \cup [type : {"add"}, liid : Liids, agency : Agencies]

(* at is where run_agency_thread is: reading messages, waiting for events   *)
(* (or about to connect, as in the beginning), or at its end.  reg is       *)
(* rmq_registered, subs the queues RabbitMQ delivers from.                  *)
Threads ==
    [at : {"messages", "epoll", "ended"}, inbox : Seq(Msgs),
     shutdown : BOOLEAN, cleanse : BOOLEAN,
     liids : [Liids -> {"none", "active", "withdrawn"}],
     unconfirmed : SUBSET Liids, confirmed : SUBSET Liids,
     up : BOOLEAN, reg : BOOLEAN, subs : SUBSET Liids]

NewThread ==
    [at |-> "epoll", inbox |-> <<>>, shutdown |-> FALSE, cleanse |-> FALSE,
     liids |-> [l \in Liids |-> "none"], unconfirmed |-> {}, confirmed |-> {},
     up |-> FALSE, reg |-> FALSE, subs |-> {}]

EndedThread == [NewThread EXCEPT !.at = "ended"]

Alive(a) == a \in table /\ thr[a].at # "ended"
Mapped(t) == {l \in Liids : t.liids[l] # "none"}

Init ==
    /\ prov = FALSE /\ joining = None
    /\ table = {}
    /\ thr = [a \in Agencies |-> EndedThread]
    /\ made = [l \in Liids |-> 0] /\ waiting = [l \in Liids |-> 0]
    /\ announced = {} /\ mapped = [l \in Liids |-> None]
    /\ sent = 0

-----------------------------------------------------------------------------
(* The main thread.                                                         *)

(* Variant: a message is lost while the thread waits for events.            *)
PutWhileReading(t, msgs) == IF t.at # "messages" THEN t ELSE [t EXCEPT !.inbox = @ \o msgs]

(* The queue of a thread that has ended is never read.                      *)
Put(t, msgs) == IF t.at = "ended" THEN t ELSE [t EXCEPT !.inbox = @ \o msgs]
Broadcast(msgs) == thr' = [a \in Agencies |-> IF a \in table THEN Put(thr[a], msgs) ELSE thr[a]]

MainRuns ==
    /\ joining = None
    /\ sent < MaxMessages
    /\ sent' = sent + 1

(* run: every thread has 60 seconds to be announced again.                  *)
attempt_provisioner_connect ==
    /\ joining = None /\ ~prov
    /\ prov' = TRUE
    /\ announced' = {}
    /\ Broadcast(<<[type |-> "shutdown"]>>)
    /\ UNCHANGED <<joining, table, mapped, sent, made, waiting>>

drop_provisioner ==
    /\ "provisioner" \in Events
    /\ MainRuns /\ prov
    /\ prov' = FALSE
    /\ announced' = {}
    /\ Broadcast(<<[type |-> "shutdown"]>>)
    /\ UNCHANGED <<joining, table, mapped, made, waiting>>

(* HASH_FIND for agency a.  The thread has freed the key of its entry when  *)
(* it ended, so an entry without a thread may be found or not.              *)
Finds(a, found) == IF found THEN a \in table ELSE ~Alive(a)

receive_lea_announce(a, found) ==
    /\ MainRuns /\ prov
    /\ Finds(a, found)
    /\ thr' = [thr EXCEPT ![a] = IF found THEN Put(@, <<[type |-> "update"]>>) ELSE NewThread]
    /\ table' = table \cup {a}
    /\ announced' = announced \cup {a}
    /\ UNCHANGED <<prov, joining, mapped, made, waiting>>

(* mediator_halt_agency_thread waits for the thread to end.                 *)
receive_lea_withdrawal(a, found) ==
    /\ "withdraw" \in Events
    /\ MainRuns /\ prov
    /\ Finds(a, found)
    /\ thr' = [thr EXCEPT ![a] = IF found THEN Put(@, <<[type |-> "halt"]>>) ELSE @]
    /\ joining' = IF found THEN a ELSE None
    /\ announced' = announced \ {a}
    /\ UNCHANGED <<prov, table, mapped, made, waiting>>

pthread_join ==
    /\ joining # None
    /\ thr[joining].at = "ended"
    /\ table' = table \ {joining}
    /\ joining' = None
    /\ UNCHANGED <<prov, thr, announced, mapped, sent, made, waiting>>

(* All threads are told.  A mapping to an unknown agency is an error, for   *)
(* which the provisioner is dropped.                                        *)
receive_liid_mapping(l, a, found) ==
    /\ MainRuns /\ prov
    /\ Finds(a, found)
    /\ Broadcast(<<[type |-> "add", liid |-> l, agency |-> a]>>
                 \o (IF found THEN <<>> ELSE <<[type |-> "shutdown"]>>))
    /\ prov' = found
    /\ announced' = IF found THEN announced ELSE {}
    /\ mapped' = [mapped EXCEPT ![l] = a]
    /\ UNCHANGED <<joining, table, made, waiting>>

receive_cease(l) ==
    /\ "cease" \in Events
    /\ MainRuns /\ prov
    /\ Broadcast(<<[type |-> "remove", liid |-> l]>>)
    /\ UNCHANGED <<prov, joining, table, announced, mapped, made, waiting>>

update_lea_thread_config ==
    /\ "reload" \in Events
    /\ MainRuns
    /\ Broadcast(<<[type |-> "reload"]>>)
    /\ UNCHANGED <<prov, joining, table, announced, mapped, made, waiting>>

-----------------------------------------------------------------------------
(* An agency thread: the messages of the main thread.                       *)

start_shutdown_timer(t) ==
    [t EXCEPT !.cleanse = FALSE, !.shutdown = TRUE, !.unconfirmed = Mapped(t), !.confirmed = {}]

disconnect_handover(t) == [t EXCEPT !.up = FALSE, !.reg = FALSE, !.subs = {}]
reset_handover_rmq(t) == [t EXCEPT !.reg = FALSE, !.subs = {}]

(* MED_LEA_MESSAGE_UPDATE_AGENCY: changed is whether the agency has moved.  *)
update_agency(t, changed) ==
    LET d == IF changed THEN disconnect_handover(t) ELSE t
    IN [d EXCEPT !.shutdown = FALSE, !.cleanse = TRUE]

(* MED_LEA_MESSAGE_REMOVE_LIID.                                             *)
remove_liid(t, l) ==
    [t EXCEPT !.subs = @ \ {l},
              !.liids[l] = IF @ = "none" THEN "none" ELSE "withdrawn",
              !.confirmed = @ \ {l}]


(* An LIID that this thread does not know is left alone.                    *)
purge_lea_liid_mapping(t, l) ==
    IF t.liids[l] = "none" THEN t
    ELSE [t EXCEPT !.subs = @ \ {l}, !.liids[l] = "none",
                   !.unconfirmed = @ \ {l}, !.confirmed = @ \ {l}]


(* Variant: an LIID that is announced again stays unconfirmed.              *)
InsertUnconfirmed(t, l) ==
    [t EXCEPT !.liids[l] = "active",
              !.confirmed = @ \cup {l},
              !.subs = IF t.liids[l] # "active" /\ t.reg THEN @ \cup {l} ELSE @]

(* An LIID that is active already is not registered again.                  *)
insert_lea_liid_mapping(t, l) ==
    [t EXCEPT !.liids[l] = "active",
              !.unconfirmed = @ \ {l}, !.confirmed = @ \cup {l},
              !.subs = IF t.liids[l] # "active" /\ t.reg THEN @ \cup {l} ELSE @]

(* What message m makes of thread t of agency a; yes is what the thread     *)
(* finds changed.                                                           *)
Handled(a, t, m, yes) ==
    CASE m.type = "halt"     -> EndedThread
      [] m.type = "shutdown" -> start_shutdown_timer(t)
      [] m.type = "update"   -> update_agency(t, yes)
      [] m.type = "reload"   -> IF yes THEN reset_handover_rmq(t) ELSE t
      [] m.type = "remove"   -> remove_liid(t, m.liid)
      [] m.type = "add"      -> IF m.agency = a THEN insert_lea_liid_mapping(t, m.liid)
                                ELSE purge_lea_liid_mapping(t, m.liid)

process_agency_messages(a, yes) ==
    /\ Alive(a) /\ thr[a].at = "messages" /\ thr[a].inbox # <<>>
    /\ thr' = [thr EXCEPT ![a] = Handled(a, [@ EXCEPT !.inbox = Tail(@)], Head(@.inbox), yes)]
    /\ UNCHANGED <<main, made, waiting>>

-----------------------------------------------------------------------------
(* An agency thread: its loop and its events.                               *)


(* No more messages.  register_handover_RMQ_all subscribes to the queues of *)
(* all LIIDs of the map, the withdrawn ones included.                       *)
register_handover_RMQ_all(a) ==
    /\ Alive(a) /\ thr[a].at = "messages" /\ thr[a].inbox = <<>>
    /\ thr' = [thr EXCEPT ![a] =
           [@ EXCEPT !.at = "epoll",
                     !.reg = (thr[a].reg \/ thr[a].up),
                     !.subs = IF thr[a].up /\ ~thr[a].reg THEN Mapped(thr[a]) ELSE @]]
    /\ UNCHANGED <<main, made, waiting>>

(* A second has passed: back to the top of the loop, where the handover is  *)
(* connected if it can be; an error that cannot be remedied ends the thread.*)
connect_mediator_handover(a, outcome) ==
    /\ Alive(a) /\ thr[a].at = "epoll"
    /\ outcome = "fatal" => "fatal" \in Events
    /\ thr' = [thr EXCEPT ![a] =
           IF ~@.up /\ outcome = "fatal" THEN EndedThread
           ELSE [@ EXCEPT !.at = "messages", !.up = (@ \/ outcome = "connected")]]
    /\ UNCHANGED <<main, made, waiting>>

Waits(a) == Alive(a) /\ thr[a].at = "epoll"

(* MED_EPOLL_SHUTDOWN_LEA_THREAD.                                           *)
shutdown_expired(a) ==
    /\ Waits(a) /\ thr[a].shutdown
    /\ thr' = [thr EXCEPT ![a] = EndedThread]
    /\ UNCHANGED <<main, made, waiting>>

(* MED_EPOLL_CEASE_LIID_TIMER: set_unconfirmed_liid_as_withdrawn.           *)
agency_thread_action_cease_liid_timer(a) ==
    /\ Waits(a) /\ thr[a].cleanse
    /\ thr' = [thr EXCEPT ![a] =
           [@ EXCEPT !.cleanse = FALSE,
                     !.subs = @ \ thr[a].unconfirmed,
                     !.liids = [l \in Liids |->
                         IF l \in thr[a].unconfirmed THEN "withdrawn" ELSE thr[a].liids[l]]]]
    /\ UNCHANGED <<main, made, waiting>>

(* MED_EPOLL_RMQCHECK_TIMER: purge_empty_withdrawn_liid_queues forgets      *)
(* withdrawn LIIDs with empty queues.                                       *)
agency_thread_action_rmqcheck_timer(a) ==
    LET gone == {l \in Liids : thr[a].liids[l] = "withdrawn" /\ waiting[l] = 0} IN
    /\ Waits(a) /\ thr[a].reg /\ gone # {}
    /\ thr' = [thr EXCEPT ![a] =
           [@ EXCEPT !.liids = [l \in Liids |-> IF l \in gone THEN "none" ELSE thr[a].liids[l]],
                     !.unconfirmed = @ \ gone]]
    /\ UNCHANGED <<main, made, waiting>>

(* Variant: a record that is delivered is taken twice.                      *)
ConsumesTwice(a, l) ==
    /\ Waits(a) /\ l \in thr[a].subs /\ waiting[l] > 0
    /\ waiting' = [waiting EXCEPT ![l] = @ - 2]
    /\ UNCHANGED <<main, thr, made>>

(* MED_EPOLL_LEA: a record is consumed, or the handover is lost.            *)
consume_available_rmq_records(a, l) ==
    /\ Waits(a) /\ l \in thr[a].subs /\ waiting[l] > 0
    /\ waiting' = [waiting EXCEPT ![l] = @ - 1]
    /\ UNCHANGED <<main, thr, made>>

handover_lost(a) ==
    /\ "handover" \in Events
    /\ Waits(a) /\ thr[a].up
    /\ thr' = [thr EXCEPT ![a] = disconnect_handover(@)]
    /\ UNCHANGED <<main, made, waiting>>

(* A receive thread publishes a record of an LIID.                          *)
publish(l) ==
    /\ made[l] < MaxRecords
    /\ made' = [made EXCEPT ![l] = @ + 1]
    /\ waiting' = [waiting EXCEPT ![l] = @ + 1]
    /\ UNCHANGED <<main, thr>>

-----------------------------------------------------------------------------
Main ==
    \/ attempt_provisioner_connect
    \/ drop_provisioner
    \/ \E a \in Agencies, found \in BOOLEAN : receive_lea_announce(a, found)
    \/ \E a \in Agencies, found \in BOOLEAN : receive_lea_withdrawal(a, found)
    \/ pthread_join
    \/ \E l \in Liids, a \in Agencies, found \in BOOLEAN : receive_liid_mapping(l, a, found)
    \/ \E l \in Liids : receive_cease(l)
    \/ update_lea_thread_config

Thread(a) ==
    \/ \E yes \in BOOLEAN : process_agency_messages(a, yes)
    \/ register_handover_RMQ_all(a)
    \/ \E outcome \in {"connected", "failed", "fatal"} : connect_mediator_handover(a, outcome)
    \/ shutdown_expired(a)
    \/ agency_thread_action_cease_liid_timer(a)
    \/ agency_thread_action_rmqcheck_timer(a)
    \/ \E l \in Liids : consume_available_rmq_records(a, l)
    \/ handover_lost(a)

Next ==
    \/ Main
    \/ \E a \in Agencies : Thread(a)
    \/ \E l \in Liids : publish(l)

Spec == Init /\ [][Next]_vars

(* Every thread goes round its loop once a second and reads its messages;   *)
(* the main thread resumes when the thread it waits for has ended; an       *)
(* agency that is tried again and again can be connected to, and what       *)
(* RabbitMQ can deliver again and again is consumed.                        *)
Fairness ==
    /\ WF_vars(pthread_join)
    /\ \A a \in Agencies :
          /\ WF_vars(\E yes \in BOOLEAN : process_agency_messages(a, yes))
          /\ WF_vars(register_handover_RMQ_all(a))
          /\ SF_vars(connect_mediator_handover(a, "connected"))
          /\ WF_vars(shutdown_expired(a))
          /\ SF_vars(agency_thread_action_rmqcheck_timer(a))
          /\ \A l \in Liids : SF_vars(consume_available_rmq_records(a, l))

FairSpec == Spec /\ Fairness

-----------------------------------------------------------------------------
(* Properties.                                                              *)

TypeOK ==
    /\ prov \in BOOLEAN /\ joining \in Agencies \cup {None}
    /\ table \subseteq Agencies /\ announced \subseteq Agencies
    /\ thr \in [Agencies -> Threads]
    /\ made \in [Liids -> 0..MaxRecords] /\ waiting \in [Liids -> 0..MaxRecords]
    /\ mapped \in [Liids -> Agencies \cup {None}]
    /\ sent \in 0..MaxMessages

(* A thread that has caught up with the main thread is not delivered the    *)
(* records of an LIID that was last mapped to another agency ("so we don't  *)
(* steal records for it and send them to the wrong agency").                *)
NoStolenRecords ==
    \A a \in Agencies : \A l \in thr[a].subs :
        thr[a].inbox = <<>> => mapped[l] = a


(* An LIID that was mapped to the agency since the provisioner came back    *)
(* stays active until the provisioner takes it away: the 30 second timer    *)
(* only withdraws the others (set_unconfirmed_liid_as_withdrawn).           *)
ConfirmedStaysActive ==
    \A a \in Agencies : \A l \in thr[a].confirmed : thr[a].liids[l] = "active"

(* The main thread does not wait for ever in pthread_join: a thread that is *)
(* told to halt ends, whatever else is in its queue and whatever timers     *)
(* run.                                                                     *)
HaltCompletes == joining # None ~> joining = None


(* An agency that the provisioner has announced on the present connection   *)
(* has a thread ("the thread will get created anew if the agency remains    *)
(* active in the provisioner intercept configuration").                     *)
AnnouncedIsServed == \A a \in announced : Alive(a)

(* A withdrawn LIID is forgotten once what was left in its queue has been   *)
(* processed.                                                               *)
WithdrawnIsDrained ==
    \A a \in Agencies, l \in Liids :
        thr[a].liids[l] = "withdrawn" ~> (thr[a].liids[l] # "withdrawn" \/ waiting[l] = 0)
=============================================================================
