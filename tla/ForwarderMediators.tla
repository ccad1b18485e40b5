------------------------- MODULE ForwarderMediators -------------------------
(***************************************************************************)
(* The mediators known to the forwarding thread of a collector             *)
(* (collector_forwarder.c): the loop of forwarder_main_loop with its poll  *)
(* list, the destinations found by mediator id and by descriptor, and the  *)
(* timer that gives mediators time to be confirmed after the provisioner   *)
(* was lost.  Buffers are counts of bytes; ExportBuffer looks inside them. *)
(***************************************************************************)
EXTENDS Naturals, Sequences, FiniteSets, FiniteSetsExt

CONSTANTS
    Mediators,   \* mediator identifiers, numbers
    Addrs,       \* address and port of a mediator
    Fds,         \* numbers the system may give to a descriptor
    None,        \* no destination, no address
    Freed,       \* a destination whose memory was released
    Messages,    \* control messages the sync thread may send, see MessageTypes
    Results,     \* mediators that encoded results are destined for
    Unannounced, \* results may come for a mediator that is not announced
    TLS,         \* connections begin with a TLS handshake
    MinSend,     \* MIN_SEND_AMOUNT
    MaxBuf,      \* bound: bytes in a buffer
    MaxMessages, \* bound: control messages
    MaxSlots     \* bound: poll items ever used

MessageTypes == {"announce", "move", "drop", "dropall", "flag", "reconnect"}

ASSUME ForwarderAssumption ==
    /\ Mediators \subseteq Nat /\ Results \subseteq Mediators
    /\ Fds \subseteq Nat \ {0}
    /\ Freed \notin Mediators /\ None \notin Mediators
    /\ Messages \subseteq MessageTypes
    /\ Unannounced \in BOOLEAN /\ TLS \in BOOLEAN
    /\ MinSend \in Nat /\ MaxBuf \in Nat /\ MaxMessages \in Nat /\ MaxSlots \in Nat

VARIABLES
    rmq,          \* records go through RabbitMQ, as configured
    pc,           \* where forwarder_main_loop is
    ctrlq,        \* zmq_ctrlsock: control messages not yet read
    sent,         \* control messages sent so far
    addrof,       \* the address the sync thread announced last
    dest,         \* destinations_by_id
    byfd,         \* destinations_by_fd
    slots,        \* topoll[3..nextpoll - 1]: descriptor and requested events
    ready,        \* the slots whose revents has ZMQ_POLLOUT
    forcesend,    \* the slots that may send less than MinSend; 0 is forcesend_rmq
    awaiting,     \* awaitingconfirm
    flagtimer,    \* flagtimerfd: "none", "armed" or "expired"
    timerrevents, \* revents of topoll[nextpoll] has ZMQ_POLLIN
    others,       \* descriptors opened by other threads
    confirmed     \* history: mediators announced since they were last flagged

polling == <<slots, ready, forcesend>>
timing  == <<awaiting, flagtimer, timerrevents>>
syncing == <<ctrlq, sent, addrof>>
vars    == <<rmq, pc, syncing, dest, byfd, polling, timing, others, confirmed>>

Init ==
    /\ rmq \in BOOLEAN
    /\ pc = "poll"
    /\ ctrlq = <<>> /\ sent = 0 /\ addrof = [m \in Mediators |-> None]
    /\ dest = [m \in Mediators |-> None]
    /\ byfd = [f \in Fds |-> None]
    /\ slots = <<>> /\ ready = {} /\ forcesend = {}
    /\ awaiting = FALSE /\ flagtimer = "none" /\ timerrevents = FALSE
    /\ others = {}
    /\ confirmed = {}

Known == {m \in Mediators : dest[m] # None}
Connected == {m \in Known : dest[m].fd # 0}
Open == {dest[m].fd : m \in Connected} \cup others

-----------------------------------------------------------------------------
(* Surroundings: the sync thread, the other threads, the clock.             *)

Publish(type, msg) ==
    /\ type \in Messages
    /\ sent < MaxMessages
    /\ sent' = sent + 1
    /\ ctrlq' = Append(ctrlq, msg)
    /\ UNCHANGED <<pc, dest, byfd, polling, timing, rmq, others, confirmed>>

new_mediator(m, a) ==
    /\ addrof[m] \in {None, a} \/ "move" \in Messages
    /\ Publish("announce", [type |-> "announce", med |-> m, addr |-> a])
    /\ addrof' = [addrof EXCEPT ![m] = a]

remove_mediator(m) ==
    /\ Publish("drop", [type |-> "drop", med |-> m])
    /\ UNCHANGED addrof

(* sync_drop_all_mediators, sync_reconnect_all_mediators, and the flagging  *)
(* of the mediators when the provisioner is lost.                           *)
SyncPublishes(type) ==
    /\ Publish(type, [type |-> type])
    /\ UNCHANGED addrof

(* Other threads open and close descriptors; they leave enough of them.     *)
OtherThreads(f) ==
    /\ f \notin {dest[m].fd : m \in Connected}
    /\ f \in others \/ Cardinality(Fds \ Open) > Cardinality(Mediators \ Connected)
    /\ others' = IF f \in others THEN others \ {f} ELSE others \cup {f}
    /\ UNCHANGED <<rmq, pc, syncing, dest, byfd, polling, timing, confirmed>>

(* Five seconds without an announcement.                                    *)
TimerExpires ==
    /\ flagtimer = "armed"
    /\ flagtimer' = "expired"
    /\ UNCHANGED <<pc, syncing, dest, byfd, polling, awaiting, timerrevents, rmq, others, confirmed>>

-----------------------------------------------------------------------------
(* Destinations.                                                            *)

(* Variant: the poll index of a new destination is not initialised.         *)
UnsetPollIndex(a) ==
    [addr |-> a, fd |-> 0, flagged |-> FALSE, slot |-> MaxSlots + 1, handshake |-> FALSE, buf |-> 0]

NewDest(a) == [addr |-> a, fd |-> 0, flagged |-> FALSE, slot |-> 0, handshake |-> FALSE, buf |-> 0]

(* Variant: the poll items are left alone.                                  *)
KeepSlots(which) == slots

ClearSlots(which) ==
    [i \in DOMAIN slots |-> IF i \in which THEN [fd |-> 0, events |-> FALSE] ELSE slots[i]]

(* disconnect_mediator, for every mediator of gone.                         *)
disconnect_mediator(gone) ==
    /\ dest' = [m \in Mediators |-> IF m \in gone THEN [dest[m] EXCEPT !.fd = 0] ELSE dest[m]]
    /\ slots' = ClearSlots({dest[m].slot : m \in gone})

(* remove_destination, for every mediator of gone.  Only the entry of an    *)
(* open descriptor leaves destinations_by_fd.                               *)
remove_destination(gone) ==
    /\ dest' = [m \in Mediators |-> IF m \in gone THEN None ELSE dest[m]]
    /\ byfd' = [f \in Fds |-> IF byfd[f] \notin gone THEN byfd[f]
                              ELSE IF dest[byfd[f]].fd = f THEN None ELSE Freed]
    /\ slots' = ClearSlots({dest[m].slot : m \in gone \cap Connected})

(* Variant: an announcement does not confirm a known mediator.              *)
AnnounceKeepsFlag(m, a) ==
    /\ LET d == dest[m] IN
       dest' = [dest EXCEPT ![m] = IF d = None THEN NewDest(a) ELSE [d EXCEPT !.addr = a]]
    /\ flagtimer' = IF awaiting THEN "armed" ELSE flagtimer
    /\ confirmed' = confirmed \cup {m}
    /\ UNCHANGED <<byfd, slots, awaiting>>

(* The address is taken from the announcement.  A mediator that has been    *)
(* given a new address is disconnected; one that results had come for       *)
(* before its first announcement keeps all but its address.                 *)
add_new_destination(m, a) ==
    /\ LET d == dest[m] IN
       dest' = [dest EXCEPT ![m] =
           IF d = None THEN NewDest(a)
           ELSE IF d.addr = None THEN [d EXCEPT !.addr = a]
           ELSE [d EXCEPT !.addr = a, !.flagged = FALSE, !.fd = IF d.addr = a THEN @ ELSE 0]]
    /\ flagtimer' = IF awaiting THEN "armed" ELSE flagtimer
    /\ confirmed' = confirmed \cup {m}
    /\ UNCHANGED <<byfd, slots, awaiting>>

flag_all_destinations ==
    /\ dest' = [m \in Mediators |-> IF m \in Known THEN [dest[m] EXCEPT !.flagged = TRUE] ELSE None]
    /\ awaiting' = TRUE
    /\ flagtimer' = "none"
    /\ confirmed' = {}
    /\ UNCHANGED <<byfd, slots>>

-----------------------------------------------------------------------------
(* forwarder_main_loop.                                                     *)

(* zmq_poll: out are the slots found writable.  The timer is in the list    *)
(* only while it runs.                                                      *)
poll(out) ==
    /\ pc = "poll" /\ pc' = "ctrl"
    /\ \A i \in out : slots[i].events /\ slots[i].fd \in Open
    /\ ready' = out
    /\ timerrevents' = IF awaiting /\ flagtimer # "none" THEN flagtimer = "expired" ELSE timerrevents
    /\ UNCHANGED <<syncing, dest, byfd, slots, forcesend, awaiting, flagtimer, rmq, others, confirmed>>

(* process_control_message reads messages until there are no more.          *)
handle_ctrl_message ==
    /\ pc = "ctrl" /\ ctrlq # <<>>
    /\ ctrlq' = Tail(ctrlq)
    /\ LET msg == Head(ctrlq) IN
       \/ /\ msg.type = "announce"
          /\ add_new_destination(msg.med, msg.addr)
       \/ /\ msg.type = "drop"
          /\ remove_destination({msg.med} \cap Known)
          /\ UNCHANGED <<awaiting, flagtimer, confirmed>>
       \/ /\ msg.type = "dropall"
          /\ remove_destination(Known)
          /\ UNCHANGED <<awaiting, flagtimer, confirmed>>
       \/ /\ msg.type = "flag"
          /\ flag_all_destinations
       \/ /\ msg.type = "reconnect"
          /\ disconnect_mediator(Known)
          /\ UNCHANGED <<byfd, awaiting, flagtimer, confirmed>>
    /\ UNCHANGED <<pc, sent, addrof, ready, forcesend, timerrevents, rmq, others>>

CtrlDone ==
    /\ pc = "ctrl" /\ ctrlq = <<>>
    /\ pc' \in {"connect", "results"}
    /\ UNCHANGED <<syncing, dest, byfd, polling, timing, rmq, others, confirmed>>

(* Variant: a mediator that has had a poll item before is connected without *)
(* setting the item up again.                                               *)
ConnectOldSlot(up, fd) ==
    /\ pc = "connect" /\ pc' = "results"
    /\ up \subseteq {m \in Known \ Connected : dest[m].addr # None}
    /\ \A m \in up : fd[m] \notin Open /\ \A k \in up \ {m} : fd[k] # fd[m]
    /\ LET fresh == {m \in up : dest[m].slot = 0}
           slot(m) == IF m \notin fresh THEN dest[m].slot
                      ELSE Len(slots) + 1 + Cardinality({k \in fresh : k < m})
           total == Len(slots) + Cardinality(fresh)
       IN
       /\ total <= MaxSlots
       /\ dest' = [m \in Mediators |-> IF m \notin up THEN dest[m]
                     ELSE [dest[m] EXCEPT !.fd = fd[m], !.slot = slot(m), !.handshake = TLS]]
       /\ byfd' = [f \in Fds |-> IF \E m \in up : fd[m] = f THEN CHOOSE m \in up : fd[m] = f ELSE byfd[f]]
       /\ slots' = [i \in 1..total |-> IF \E m \in fresh : slot(m) = i
                        THEN [fd |-> fd[CHOOSE m \in fresh : slot(m) = i], events |-> TRUE]
                        ELSE slots[i]]
       /\ forcesend' = 0..total
    /\ UNCHANGED <<syncing, ready, timing, rmq, others, confirmed>>

(* The connection timer has fired: the mediators of up accept a connection, *)
(* given the descriptors fd; the others that have an address do not.        *)
connect_export_targets(up, fd) ==
    /\ pc = "connect" /\ pc' = "results"
    /\ up \subseteq {m \in Known \ Connected : dest[m].addr # None}
    /\ \A m \in up : fd[m] \notin Open /\ \A k \in up \ {m} : fd[k] # fd[m]
    /\ LET fresh == {m \in up : dest[m].slot = 0}
           slot(m) == IF m \notin fresh THEN dest[m].slot
                      ELSE Len(slots) + 1 + Cardinality({k \in fresh : k < m})
           total == Len(slots) + Cardinality(fresh)
       IN
       /\ total <= MaxSlots
       /\ dest' = [m \in Mediators |-> IF m \notin up THEN dest[m]
                     ELSE [dest[m] EXCEPT !.fd = fd[m], !.slot = slot(m), !.handshake = TLS]]
       /\ byfd' = [f \in Fds |-> IF \E m \in up : fd[m] = f THEN CHOOSE m \in up : fd[m] = f ELSE byfd[f]]
       /\ slots' = [i \in 1..total |-> IF \E m \in up : slot(m) = i
                        THEN [fd |-> fd[CHOOSE m \in up : slot(m) = i], events |-> TRUE]
                        ELSE slots[i]]
       /\ ready' = ready \ {slot(m) : m \in up}
       /\ forcesend' = 0..total
       /\ timerrevents' = IF fresh = {} THEN timerrevents ELSE FALSE
    /\ UNCHANGED <<syncing, awaiting, flagtimer, rmq, others, confirmed>>

(* handle_encoded_result, as far as the destinations are concerned.         *)
handle_encoded_result(m) ==
    /\ pc = "results"
    /\ Unannounced \/ dest[m] # None
    /\ dest' = [dest EXCEPT ![m] = IF @ = None THEN [NewDest(None) EXCEPT !.buf = 1]
                                   ELSE [@ EXCEPT !.buf = @ + 1]]
    /\ dest'[m].buf <= MaxBuf
    /\ UNCHANGED <<pc, syncing, byfd, polling, timing, rmq, others, confirmed>>

ResultsDone ==
    /\ pc = "results" /\ pc' = "purge"
    /\ UNCHANGED <<syncing, dest, byfd, polling, timing, rmq, others, confirmed>>

Flagged == {m \in Known : dest[m].flagged}

purge_unconfirmed_mediators ==
    /\ pc = "purge" /\ pc' = "send"
    /\ IF awaiting /\ flagtimer # "none" /\ timerrevents
       THEN /\ remove_destination(Flagged)
            /\ awaiting' = FALSE
            /\ flagtimer' = "none"
       ELSE UNCHANGED <<dest, byfd, slots, awaiting, flagtimer>>
    /\ UNCHANGED <<syncing, ready, forcesend, timerrevents, rmq, others, confirmed>>

(* Variant: only full batches are published.                                *)
RmqWriteFull(dead, published) ==
    /\ rmq /\ pc = "send"
    /\ dead \subseteq {m \in Connected : ~dest[m].handshake}
    /\ published \subseteq {m \in Known : dest[m].buf >= MinSend}
    /\ dest' = [m \in Mediators |-> IF m \notin Known THEN None
                  ELSE [dest[m] EXCEPT !.fd = IF m \in dead THEN 0 ELSE @,
                                       !.buf = IF m \in published THEN 0 ELSE @]]
    /\ slots' = ClearSlots({dest[m].slot : m \in dead})
    /\ forcesend' = forcesend \ {0}
    /\ pc' = "sendslots"
    /\ UNCHANGED <<syncing, byfd, ready, timing, rmq, others, confirmed>>

(* rmq_write_buffered comes before the loop over the slots.  The heartbeats *)
(* to the mediators of dead fail; what is due and can be published is.      *)
rmq_write_buffered(dead, published) ==
    /\ rmq /\ pc = "send"
    /\ dead \subseteq {m \in Connected : ~dest[m].handshake}
    /\ published \subseteq {m \in Known : dest[m].buf >= MinSend \/ (dest[m].buf > 0 /\ 0 \in forcesend)}
    /\ dest' = [m \in Mediators |-> IF m \notin Known THEN None
                  ELSE [dest[m] EXCEPT !.fd = IF m \in dead THEN 0 ELSE @,
                                       !.buf = IF m \in published THEN 0 ELSE @]]
    /\ slots' = ClearSlots({dest[m].slot : m \in dead})
    /\ forcesend' = forcesend \ {0}
    /\ pc' = "sendslots"
    /\ UNCHANGED <<syncing, byfd, ready, timing, rmq, others, confirmed>>

NoRabbitMQ ==
    /\ ~rmq /\ pc = "send" /\ pc' = "sendslots"
    /\ UNCHANGED <<syncing, dest, byfd, polling, timing, rmq, others, confirmed>>

(* The slot the loop has come to, and the destination found for it.         *)
Slot == Min(ready)
Target == byfd[slots[Slot].fd]
AtSlot(found) ==
    /\ pc = "sendslots" /\ ready # {}
    /\ found <=> (slots[Slot].events /\ Target \in Known)
    /\ ready' = ready \ {Slot}
    /\ UNCHANGED <<pc, syncing, byfd, timing, rmq, others, confirmed>>

(* The slot was given up, or no destination has its descriptor.             *)
SlotUnused ==
    /\ AtSlot(FALSE)
    /\ slots' = [slots EXCEPT ![Slot].events = FALSE]
    /\ UNCHANGED <<dest, forcesend>>

(* The handshake is completed, fails or needs more messages.                *)
complete_ssl_handshake(outcome) ==
    /\ AtSlot(TRUE)
    /\ dest[Target].handshake
    /\ IF outcome = "failed"
       THEN /\ dest' = [dest EXCEPT ![Target].handshake = FALSE, ![Target].fd = 0]
            /\ slots' = ClearSlots({dest[Target].slot})
       ELSE /\ dest' = [dest EXCEPT ![Target].handshake = (outcome = "continue")]
            /\ UNCHANGED slots
    /\ UNCHANGED forcesend

(* Variant: a small buffer always waits for more records.                   *)
DueWhenLarge == ~rmq /\ dest[Target].buf >= MinSend

Due == ~rmq /\ dest[Target].buf > 0 /\ (Slot \in forcesend \/ dest[Target].buf >= MinSend)

NothingToSend ==
    /\ AtSlot(TRUE)
    /\ ~dest[Target].handshake /\ ~Due
    /\ UNCHANGED <<dest, slots, forcesend>>

(* n bytes are taken by the socket.                                         *)
transmit_buffered_records(n) ==
    /\ AtSlot(TRUE)
    /\ ~dest[Target].handshake /\ Due
    /\ n <= dest[Target].buf
    /\ dest[Target].fd # 0
    /\ dest' = [dest EXCEPT ![Target].buf = @ - n]
    /\ forcesend' = forcesend \ {Slot}
    /\ UNCHANGED slots

transmit_error ==
    /\ AtSlot(TRUE)
    /\ ~dest[Target].handshake /\ Due
    /\ disconnect_mediator({Target})
    /\ forcesend' = forcesend \ {Slot}

SlotsDone ==
    /\ pc = "sendslots" /\ ready = {} /\ pc' = "poll"
    /\ UNCHANGED <<syncing, dest, byfd, polling, timing, rmq, others, confirmed>>

-----------------------------------------------------------------------------
Loop ==
    \/ \E out \in SUBSET DOMAIN slots : poll(out)
    \/ handle_ctrl_message
    \/ CtrlDone
    \/ \E up \in SUBSET Mediators : \E fd \in [up -> Fds] : connect_export_targets(up, fd)
    \/ \E m \in Results : handle_encoded_result(m)
    \/ ResultsDone
    \/ purge_unconfirmed_mediators
    \/ \E dead, published \in SUBSET Mediators : rmq_write_buffered(dead, published)
    \/ NoRabbitMQ
    \/ SlotUnused
    \/ \E outcome \in {"completed", "continue", "failed"} : complete_ssl_handshake(outcome)
    \/ NothingToSend
    \/ \E n \in 0..MaxBuf : transmit_buffered_records(n)
    \/ transmit_error
    \/ SlotsDone

Next ==
    \/ \E m \in Mediators, a \in Addrs : new_mediator(m, a)
    \/ \E m \in Mediators : remove_mediator(m)
    \/ \E type \in {"dropall", "flag", "reconnect"} : SyncPublishes(type)
    \/ \E f \in Fds : OtherThreads(f)
    \/ TimerExpires
    \/ Loop

Spec == Init /\ [][Next]_vars

(* The loop runs for ever; a mediator that is reachable again and again is  *)
(* connected in the end, and a socket that is writable again and again      *)
(* takes bytes in the end.  No handshake goes on for ever.                  *)
AllUp == {m \in Known \ Connected : dest[m].addr # None}
Fairness ==
    /\ WF_vars(Loop)
    /\ SF_vars(poll({i \in DOMAIN slots : slots[i].events /\ slots[i].fd \in Open}))
    /\ SF_vars(CtrlDone /\ pc' = "connect")
    /\ SF_vars(ResultsDone)
    /\ SF_vars(\E fd \in [AllUp -> Fds] : connect_export_targets(AllUp, fd))
    /\ SF_vars(complete_ssl_handshake("completed"))
    /\ \A m \in Mediators :
          SF_vars(dest[m] # None /\ transmit_buffered_records(dest[m].buf) /\ Target = m)
    /\ SF_vars(\E dead \in SUBSET Mediators : rmq_write_buffered(dead, {m \in Known : dest[m].buf > 0}))

FairSpec == Spec /\ Fairness

-----------------------------------------------------------------------------
(* Properties.                                                              *)

Dests == [addr : Addrs \cup {None}, fd : Fds \cup {0}, flagged : BOOLEAN,
          slot : 0..MaxSlots, handshake : BOOLEAN, buf : 0..MaxBuf]

TypeOK ==
    /\ rmq \in BOOLEAN
    /\ pc \in {"poll", "ctrl", "connect", "results", "purge", "send", "sendslots"}
    /\ sent \in 0..MaxMessages /\ Len(ctrlq) <= sent
    /\ addrof \in [Mediators -> Addrs \cup {None}]
    /\ dest \in [Mediators -> Dests \cup {None}]
    /\ byfd \in [Fds -> Mediators \cup {None, Freed}]
    /\ slots \in Seq([fd : Fds \cup {0}, events : BOOLEAN])
    /\ ready \subseteq DOMAIN slots /\ forcesend \subseteq {0} \cup DOMAIN slots
    /\ awaiting \in BOOLEAN /\ timerrevents \in BOOLEAN
    /\ flagtimer \in {"none", "armed", "expired"}
    /\ others \subseteq Fds
    /\ confirmed \subseteq Mediators

(* As long as no mediator changes its address, a poll slot that is watched  *)
(* leads through destinations_by_fd to the live destination that owns slot  *)
(* and descriptor, though descriptors are closed and reused and             *)
(* destinations_by_fd keeps entries of released destinations.               *)
SlotLeadsToOwner ==
    \A i \in DOMAIN slots : slots[i].events =>
        LET m == byfd[slots[i].fd] IN
        m \in Known /\ dest[m].fd = slots[i].fd /\ dest[m].slot = i

(* Even when mediators move, the slot of a connected mediator is watched    *)
(* for its descriptor, so that its buffer is not forgotten.                 *)
ConnectedIsWatched ==
    \A m \in Connected : slots[dest[m].slot] = [fd |-> dest[m].fd, events |-> TRUE]

(* A mediator that was announced after the provisioner was lost is not      *)
(* thrown away with its buffer when the confirmation timer fires ("flag     *)
(* them to be disconnected if they are not announced after we reconnect").  *)
ConfirmedNotPurged ==
    [][pc = "purge" => \A m \in confirmed : dest[m] # None => dest'[m] # None]_vars

(* Mediators that were not announced yet are given until the confirmation   *)
(* timer expires: five seconds from the last announcement.                  *)
PurgedAfterTimer ==
    [][(pc = "purge" /\ \E m \in Mediators : dest[m] # None /\ dest'[m] = None)
          => flagtimer = "expired"]_vars

(* What is buffered for an announced mediator is sent in the end, whatever  *)
(* becomes of its connections, unless the mediator is dropped.              *)
BufferedIsSent ==
    \A m \in Mediators :
        (dest[m] # None /\ dest[m].addr # None /\ dest[m].buf > 0) ~> (dest[m] = None \/ dest[m].buf = 0)
=============================================================================
