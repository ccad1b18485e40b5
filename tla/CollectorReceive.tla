-------------------------- MODULE CollectorReceive --------------------------
(***************************************************************************)
(* The threads of a mediator that receive intercept records from the       *)
(* collectors and put them into the queues of the internal RabbitMQ broker *)
(* (coll_recv_thread.c), with the main thread that accepts the connections *)
(* and halts the threads (mediator.c).  A collector either sends its       *)
(* records over the socket, or leaves them in its own RabbitMQ broker and  *)
(* the socket carries none.  The CC, IRI and raw IP queues of an LIID are  *)
(* treated alike: an LIID has one queue here.                              *)
(***************************************************************************)
EXTENDS Naturals, Sequences, FiniteSets

CONSTANTS
    Collectors, Liids,
    Fds,         \* file descriptors for the connections of collectors
    None,        \* no collector, no descriptor
    Events,      \* what may happen, see EventNames
    MaxRecords,  \* bound: records each collector makes
    MaxLosses,   \* bound: connections that break
    MaxReloads   \* bound: reloads of the configuration

EventNames == {"rmq", "tls", "password", "listener", "loss", "broker", "fatal"}

ASSUME CollectorAssumption ==
    /\ None \notin Collectors \cup Fds
    /\ Events \subseteq EventNames
    /\ MaxRecords \in Nat /\ MaxLosses \in Nat /\ MaxReloads \in Nat

VARIABLES
    rmqenabled,  \* configuration: collectors export through RabbitMQ (never reloaded)
    conf,        \* the shared configuration, see TypeOK
    table,       \* main thread: collector_threads.threads
    closing,     \* main thread: threads mediator_disconnect_all_collectors has yet to end
    joining,     \* main thread: waits in pthread_join for the thread of this collector
    thr,         \* the state of each thread, see Threads
    sock,        \* the sockets accepted: whose, still connected, records not yet read
    conn,        \* the descriptor behind the connection a collector uses
    backlog,     \* records in the RabbitMQ broker of a collector
    made,        \* number of records made by a collector
    queue,       \* internal RabbitMQ: the queue of each LIID
    losses, reloads

main == <<table, closing, joining>>
ends == <<backlog, made>>
counts == <<losses, reloads>>
vars == <<rmqenabled, conf, main, thr, sock, conn, ends, queue, counts>>

Records == [col : Collectors, liid : Liids, n : 1..MaxRecords]
Msgs == [type : {"halt", "reload"}] \cup [type : {"reconnect"}, fd : Fds]

(* at is where start_collector_thread is: at the head of its loop, about to *)
(* set up its connections, waiting for events, or at its end.  fd is        *)
(* col_fd; ev and rmqev are colev and rmq_colev; evfd the descriptor of     *)
(* colev; quiet is disabled_log; producer the connection to the broker.     *)
Threads ==
    [at : {"loop", "prepare", "epoll", "ended"}, inbox : Seq(Msgs),
     fd : Fds \cup {None}, ev : {"none", "handshake", "ready"},
     evfd : Fds \cup {None}, rmqev : BOOLEAN, tls : BOOLEAN, pass : Nat,
     dropped : BOOLEAN, quiet : BOOLEAN,
     producer : {"none", "good", "broken"}, known : SUBSET Liids]

NewThread(fd) ==
    [at |-> "loop", inbox |-> <<>>, fd |-> fd, ev |-> "none", evfd |-> None,
     rmqev |-> FALSE, tls |-> FALSE, pass |-> conf.pass, dropped |-> FALSE,
     quiet |-> FALSE, producer |-> "none", known |-> {}]

EndedThread == [NewThread(None) EXCEPT !.at = "ended", !.pass = 0]
NoSocket == [owner |-> None, up |-> FALSE, data |-> <<>>]

Init ==
    /\ rmqenabled \in {FALSE, "rmq" \in Events}
    /\ conf = [tls |-> FALSE, pass |-> 0]
    /\ table = {} /\ closing = {} /\ joining = None
    /\ thr = [c \in Collectors |-> EndedThread]
    /\ sock = [f \in Fds |-> NoSocket]
    /\ conn = [c \in Collectors |-> None]
    /\ backlog = [c \in Collectors |-> <<>>]
    /\ made = [c \in Collectors |-> 0]
    /\ queue = [l \in Liids |-> [declared |-> FALSE, records |-> <<>>]]
    /\ losses = 0 /\ reloads = 0

-----------------------------------------------------------------------------
(* The collectors.                                                          *)

(* The exporter of collector c sends a record, or leaves it in its broker.  *)
export_record(c, l) ==
    /\ made[c] < MaxRecords
    /\ made' = [made EXCEPT ![c] = @ + 1]
    /\ LET r == [col |-> c, liid |-> l, n |-> made[c] + 1]
       IN IF rmqenabled
          THEN /\ backlog' = [backlog EXCEPT ![c] = Append(@, r)]
               /\ UNCHANGED sock
          ELSE /\ conn[c] # None
               /\ sock' = [sock EXCEPT ![conn[c]].data = Append(@, r)]
               /\ UNCHANGED backlog
    /\ UNCHANGED <<rmqenabled, conf, main, thr, conn, queue, counts>>

(* The collector closes its end, or the network does.                       *)
lose_connection(c) ==
    /\ "loss" \in Events
    /\ losses < MaxLosses
    /\ conn[c] # None
    /\ sock' = [sock EXCEPT ![conn[c]].up = FALSE]
    /\ conn' = [conn EXCEPT ![c] = None]
    /\ losses' = losses + 1
    /\ UNCHANGED <<rmqenabled, conf, main, thr, ends, queue, reloads>>

-----------------------------------------------------------------------------
(* The main thread.                                                         *)

(* The queue of a thread that has ended is never read.                      *)
Put(t, m) == IF t.at = "ended" THEN t ELSE [t EXCEPT !.inbox = Append(@, m)]

(* Collector c connects, and the kernel gives the socket any free           *)
(* descriptor.                                                              *)
mediator_accept_collector_connection(c, fd) ==
    /\ closing = {}
    /\ conn[c] = None /\ sock[fd].owner = None
    /\ sock' = [sock EXCEPT ![fd] = [owner |-> c, up |-> TRUE, data |-> <<>>]]
    /\ conn' = [conn EXCEPT ![c] = fd]
    /\ thr' = [thr EXCEPT ![c] =
                   IF c \in table THEN Put(@, [type |-> "reconnect", fd |-> fd])
                   ELSE NewThread(fd)]
    /\ table' = table \cup {c}
    /\ UNCHANGED <<rmqenabled, conf, closing, joining, ends, queue, counts>>

update_coll_recv_thread_config ==
    thr' = [c \in Collectors |-> IF c \in table THEN Put(thr[c], [type |-> "reload"]) ELSE thr[c]]

(* A change of the TLS configuration or of the mediator ID (tls is then as  *)
(* before) ends all threads, a change of the broker's password does not.    *)
reload_mediator_config(tls, pass) ==
    /\ closing = {}
    /\ reloads < MaxReloads
    /\ conf' = [tls |-> tls, pass |-> pass]
    /\ update_coll_recv_thread_config
    /\ closing' = IF pass = conf.pass THEN table ELSE {}
    /\ reloads' = reloads + 1
    /\ UNCHANGED <<rmqenabled, table, joining, sock, conn, ends, queue, losses>>

(* A change of the address to listen on ends all threads before they hear   *)
(* of the new configuration.                                                *)
halt_listening_socket ==
    /\ "listener" \in Events
    /\ closing = {}
    /\ reloads < MaxReloads
    /\ closing' = table
    /\ reloads' = reloads + 1
    /\ UNCHANGED <<rmqenabled, conf, table, joining, thr, sock, conn, ends, queue, losses>>

mediator_disconnect_all_collectors(c) ==
    /\ c \in closing /\ joining = None
    /\ thr' = [thr EXCEPT ![c] = Put(@, [type |-> "halt"])]
    /\ joining' = c
    /\ UNCHANGED <<rmqenabled, conf, table, closing, sock, conn, ends, queue, counts>>

(* Variant: the entry of the thread is removed while it is iterated over.   *)
JoinForgetsClosing ==
    /\ joining # None
    /\ thr[joining].at = "ended"
    /\ table' = table \ {joining}
    /\ joining' = None
    /\ UNCHANGED <<rmqenabled, conf, closing, thr, sock, conn, ends, queue, counts>>

pthread_join ==
    /\ joining # None
    /\ thr[joining].at = "ended"
    /\ table' = table \ {joining} /\ closing' = closing \ {joining}
    /\ joining' = None
    /\ UNCHANGED <<rmqenabled, conf, thr, sock, conn, ends, queue, counts>>

-----------------------------------------------------------------------------
(* The head of the loop of a thread.                                        *)

(* close(): the collector at the other end, if it is still there, sees it.  *)
Close(fds) ==
    /\ sock' = [f \in Fds |-> IF f \in fds THEN NoSocket ELSE sock[f]]
    /\ conn' = [c \in Collectors |-> IF conn[c] \in fds THEN None ELSE conn[c]]


(* remove_mediator_fdevent for both events: goes with Close(EventFds(t)).   *)
RemoveEvents(t) == [t EXCEPT !.ev = "none", !.evfd = None, !.rmqev = FALSE]
EventFds(t) == {t.evfd} \ {None}

Dropped(t) == [RemoveEvents(t) EXCEPT !.dropped = TRUE, !.quiet = TRUE, !.at = "loop"]

(* A password that changed makes the thread rejoin the collector's broker.  *)
Reloaded(t) ==
    LET p == [t EXCEPT !.rmqev = IF t.pass # conf.pass THEN FALSE ELSE @, !.pass = conf.pass]
    IN IF t.tls # conf.tls /\ t.ev # "none" THEN [p EXCEPT !.ev = "none", !.evfd = None] ELSE p

(* Variant: was_dropped is not reset.                                       *)
ReconnectedDropped(t, fd) == [RemoveEvents(t) EXCEPT !.fd = fd]

Reconnected(t, fd) == [RemoveEvents(t) EXCEPT !.fd = fd, !.dropped = FALSE]

(* Variant: a thread that lost its collector no longer reads its messages.  *)
ReadUnlessDropped(c) ==
    /\ thr[c].at = "loop" /\ ~thr[c].dropped
    /\ thr' = [thr EXCEPT ![c].at = "prepare"]
    /\ UNCHANGED <<rmqenabled, conf, main, sock, conn, ends, queue, counts>>

(* One message per turn of the loop.  Without a collector the thread only   *)
(* reads messages.  HALT ends it: cleanup_collector_thread closes the       *)
(* descriptors that have an event.                                          *)
read_message(c) ==
    LET t == thr[c]
        m == Head(t.inbox)
        u == [t EXCEPT !.inbox = Tail(@)]
        next == CASE m.type = "halt" -> EndedThread
                  [] m.type = "reload" -> Reloaded(u)
                  [] m.type = "reconnect" -> Reconnected(u, m.fd)
    IN
    /\ t.at = "loop"
    /\ \/ /\ t.inbox = <<>> /\ ~t.dropped
          /\ thr' = [thr EXCEPT ![c].at = "prepare"]
          /\ UNCHANGED <<sock, conn>>
       \/ /\ t.inbox # <<>>
          /\ thr' = [thr EXCEPT ![c] =
                        IF next.at = "ended" \/ next.dropped THEN next
                        ELSE [next EXCEPT !.at = "prepare"]]
          /\ Close(EventFds(t) \ EventFds(next))
    /\ UNCHANGED <<rmqenabled, conf, main, ends, queue, counts>>

(* join_mediator_RMQ_as_producer: failed when the broker cannot be reached. *)
join_mediator_RMQ_as_producer(c, joined) ==
    /\ thr[c].at = "prepare" /\ thr[c].producer = "none"
    /\ joined \/ "broker" \in Events
    /\ thr' = [thr EXCEPT ![c] = IF joined THEN [@ EXCEPT !.producer = "good"]
                                 ELSE [@ EXCEPT !.quiet = TRUE, !.at = "loop"]]
    /\ UNCHANGED <<rmqenabled, conf, main, sock, conn, ends, queue, counts>>

(* start_collector_ssl: the handshake fails, waits or is done; it fails on  *)
(* a descriptor that is closed.                                             *)
Handshakes(t) ==
    IF ~conf.tls THEN {"ready"}
    ELSE IF sock[t.fd].owner = None THEN {"failed"} ELSE {"failed", "handshake", "ready"}

(* prepare_collector_receive_fd.  Epoll refuses a descriptor that is        *)
(* closed; col_fd is then kept if nothing is to be logged.                  *)
Prepared(t, type) ==
    IF type = "failed" THEN [t EXCEPT !.fd = None, !.quiet = TRUE]
    ELSE IF sock[t.fd].owner = None
    THEN [t EXCEPT !.fd = IF t.quiet THEN @ ELSE None, !.quiet = TRUE, !.tls = conf.tls]
    ELSE [t EXCEPT !.ev = type, !.evfd = t.fd, !.tls = conf.tls]

(* Joined tells whether the collector's broker can be reached.              *)
prepare_collector_receive_rmq(t, joined) ==
    IF t.ev = "ready" /\ rmqenabled /\ ~t.rmqev
    THEN [t EXCEPT !.rmqev = joined, !.quiet = @ \/ ~joined]
    ELSE t

(* The thread sets up what is missing and goes to wait for events.          *)
prepare_collector_receive(c, joined) ==
    LET t == thr[c] IN
    /\ t.at = "prepare" /\ t.producer # "none"
    /\ \E type \in IF t.ev = "none" /\ t.fd # None THEN Handshakes(t) ELSE {"kept"} :
           LET p == IF type = "kept" THEN t ELSE Prepared(t, type)
           IN /\ thr' = [thr EXCEPT ![c] =
                             [prepare_collector_receive_rmq(p, joined) EXCEPT !.at = "epoll"]]
              /\ Close(IF type = "failed" THEN {t.fd} ELSE {})
    /\ UNCHANGED <<rmqenabled, conf, main, ends, queue, counts>>

-----------------------------------------------------------------------------
(* The events of a thread.                                                  *)

Waits(c) == c \in table /\ thr[c].at = "epoll"

sigcheck_timer(c) ==
    /\ Waits(c)
    /\ thr' = [thr EXCEPT ![c].at = "loop"]
    /\ UNCHANGED <<rmqenabled, conf, main, sock, conn, ends, queue, counts>>

Declare(liids) ==
    queue' = [l \in Liids |-> [queue[l] EXCEPT !.declared = @ \/ l \in liids]]

(* LIIDs not seen for 10 minutes are forgotten, the queues of the others    *)
(* declared again.                                                          *)
remove_expired_liid_queues(c, expired) ==
    /\ Waits(c)
    /\ expired \subseteq thr[c].known
    /\ thr' = [thr EXCEPT ![c] = [@ EXCEPT !.known = @ \ expired, !.at = "loop"]]
    /\ Declare(IF thr[c].producer = "good" THEN thr[c].known \ expired ELSE {})
    /\ UNCHANGED <<rmqenabled, conf, main, sock, conn, ends, counts>>

(* The collector is gone, or an event failed: both events are removed and   *)
(* the thread waits for the collector to connect again.  What the socket    *)
(* still held is not read (EPOLLRDHUP comes first).                         *)
Drop(c) ==
    /\ thr' = [thr EXCEPT ![c] = Dropped(@)]
    /\ Close(EventFds(thr[c]))

continue_collector_handshake(c, done, joined) ==
    /\ Waits(c) /\ thr[c].ev = "handshake"
    /\ IF done /\ sock[thr[c].evfd].up
       THEN /\ thr' = [thr EXCEPT ![c] =
                           prepare_collector_receive_rmq([@ EXCEPT !.ev = "ready", !.at = "loop"], joined)]
            /\ UNCHANGED <<sock, conn>>
       ELSE Drop(c)
    /\ UNCHANGED <<rmqenabled, conf, main, ends, queue, counts>>

collector_hangup(c) ==
    /\ Waits(c) /\ thr[c].ev = "ready"
    /\ ~sock[thr[c].evfd].up
    /\ Drop(c)
    /\ UNCHANGED <<rmqenabled, conf, main, ends, queue, counts>>

rmq_hangup(c) ==
    /\ "loss" \in Events
    /\ losses < MaxLosses
    /\ Waits(c) /\ thr[c].rmqev
    /\ Drop(c)
    /\ losses' = losses + 1
    /\ UNCHANGED <<rmqenabled, conf, main, ends, queue, reloads>>

(* Variant: the queues of a new LIID are left to the timer to declare.      *)
PublishUndeclared(c, r) ==
    /\ thr' = [thr EXCEPT ![c] = [@ EXCEPT !.known = @ \cup {r.liid}, !.quiet = FALSE]]
    /\ queue' = [queue EXCEPT ![r.liid].records =
                     IF thr[c].producer = "good" THEN Append(@, r) ELSE @]

(* A queue for a new LIID is declared first; a failure of that drops the    *)
(* collector, a failure to publish only loses the record.                   *)
process_received_data(c, r) ==
    LET t == thr[c]
        works == t.producer = "good"
    IN /\ thr' = [thr EXCEPT ![c] =
                      LET k == [t EXCEPT !.known = @ \cup {r.liid}, !.quiet = FALSE]
                      IN IF works \/ r.liid \in t.known THEN k ELSE Dropped(k)]
       /\ queue' = [queue EXCEPT ![r.liid] =
                        [declared |-> @.declared \/ (works /\ r.liid \notin t.known),
                         records |-> IF works THEN Append(@.records, r) ELSE @.records]]

(* receive_collector for the socket.                                        *)
receive_net_buffer(c) ==
    /\ Waits(c) /\ thr[c].ev = "ready"
    /\ LET f == thr[c].evfd
           rest == [sock EXCEPT ![f].data = Tail(@)]
       IN /\ sock[f].data # <<>>
          /\ process_received_data(c, Head(sock[f].data))
          /\ IF thr'[c].dropped
             THEN Close({f})
             ELSE sock' = rest /\ UNCHANGED conn
    /\ UNCHANGED <<rmqenabled, conf, main, ends, counts>>


(* receive_collector for the collector's broker: the record is acknowledged *)
(* as it is read.                                                           *)
receive_RMQ_buffer(c) ==
    /\ Waits(c) /\ thr[c].rmqev
    /\ backlog[c] # <<>>
    /\ backlog' = [backlog EXCEPT ![c] = Tail(@)]
    /\ process_received_data(c, Head(backlog[c]))
    /\ Close(IF thr'[c].dropped THEN EventFds(thr[c]) ELSE {})
    /\ UNCHANGED <<rmqenabled, conf, main, made, counts>>

(* The internal broker goes away.  No thread notices, nor connects again.   *)
broker_restart ==
    /\ "broker" \in Events
    /\ \E c \in Collectors : thr[c].producer = "good"
    /\ thr' = [c \in Collectors |-> IF thr[c].producer = "good"
                                    THEN [thr[c] EXCEPT !.producer = "broken"] ELSE thr[c]]
    /\ UNCHANGED <<rmqenabled, conf, main, sock, conn, ends, queue, counts>>

(* epoll_wait or a timer fails: the thread ends and keeps its entry.        *)
fatal_error(c) ==
    /\ "fatal" \in Events
    /\ Waits(c)
    /\ thr' = [thr EXCEPT ![c] = EndedThread]
    /\ Close(EventFds(thr[c]))
    /\ UNCHANGED <<rmqenabled, conf, main, ends, queue, counts>>

-----------------------------------------------------------------------------
ThreadLoop(c) ==
    \/ read_message(c)
    \/ \E joined \in BOOLEAN : join_mediator_RMQ_as_producer(c, joined)
    \/ \E joined \in BOOLEAN : prepare_collector_receive(c, joined)

Next ==
    \/ \E c \in Collectors, l \in Liids : export_record(c, l)
    \/ \E c \in Collectors : lose_connection(c)
    \/ \E c \in Collectors, fd \in Fds : mediator_accept_collector_connection(c, fd)
    \/ "tls" \in Events /\ \E tls \in BOOLEAN : reload_mediator_config(tls, conf.pass)
    \/ "password" \in Events /\ reload_mediator_config(conf.tls, conf.pass + 1)
    \/ halt_listening_socket
    \/ \E c \in Collectors : mediator_disconnect_all_collectors(c)
    \/ pthread_join
    \/ \E c \in Collectors : ThreadLoop(c)
    \/ \E c \in Collectors : sigcheck_timer(c)
    \/ \E c \in Collectors, expired \in SUBSET Liids : remove_expired_liid_queues(c, expired)
    \/ \E c \in Collectors, done, joined \in BOOLEAN : continue_collector_handshake(c, done, joined)
    \/ \E c \in Collectors : collector_hangup(c)
    \/ \E c \in Collectors : rmq_hangup(c)
    \/ \E c \in Collectors : receive_net_buffer(c)
    \/ \E c \in Collectors : receive_RMQ_buffer(c)
    \/ broker_restart
    \/ \E c \in Collectors : fatal_error(c)

Spec == Init /\ [][Next]_vars

(* The threads and the main thread are scheduled, timers fire, a handshake  *)
(* does not wait for ever, a broker can be reached in the end, and what     *)
(* epoll reports is handled: level-triggered, so it is reported again.      *)
(* Collectors that lost their mediator connect again every second.          *)
Fairness ==
    /\ \A c \in Collectors :
        /\ WF_vars(read_message(c) \/ prepare_collector_receive(c, TRUE) \/ sigcheck_timer(c))
        /\ SF_vars(join_mediator_RMQ_as_producer(c, TRUE))
        /\ SF_vars(\E done, joined \in BOOLEAN : continue_collector_handshake(c, done, joined))
        /\ SF_vars(collector_hangup(c) \/ receive_net_buffer(c) \/ receive_RMQ_buffer(c))
    /\ WF_vars(pthread_join \/ \E c \in Collectors : mediator_disconnect_all_collectors(c))

FairSpec == Init /\ [][Next]_vars /\ Fairness

-----------------------------------------------------------------------------
(* Every variable has its type.                                             *)
TypeOK ==
    /\ rmqenabled \in BOOLEAN
    /\ conf \in [tls : BOOLEAN, pass : 0..MaxReloads]
    /\ table \subseteq Collectors /\ closing \subseteq table
    /\ joining \in Collectors \cup {None}
    /\ thr \in [Collectors -> Threads]
    /\ sock \in [Fds -> [owner : Collectors \cup {None}, up : BOOLEAN, data : Seq(Records)]]
    /\ conn \in [Collectors -> Fds \cup {None}]
    /\ backlog \in [Collectors -> Seq(Records)]
    /\ made \in [Collectors -> 0..MaxRecords]
    /\ queue \in [Liids -> [declared : BOOLEAN, records : Seq(Records)]]
    /\ losses \in 0..MaxLosses /\ reloads \in 0..MaxReloads



(* Records are only ever put into a queue that has been declared: the       *)
(* broker would discard them silently (process_received_data).              *)
StoredIsDeclared == \A l \in Liids : queue[l].records # <<>> => queue[l].declared

(* The descriptor fd of collector c is, or will be, the one its thread      *)
(* uses.                                                                    *)
Held(c, fd) ==
    LET t == thr[c]
        reconnects == {i \in DOMAIN t.inbox : t.inbox[i].type = "reconnect"}
    IN /\ c \in table /\ t.at # "ended"
       /\ IF reconnects = {} THEN t.fd = fd
          ELSE \E i \in reconnects : t.inbox[i].fd = fd /\ \A j \in reconnects : j <= i

(* What arrives on a connection that a thread has taken over, or is told to *)
(* take over, is read, unless the connection breaks or the thread is told   *)
(* to halt: the thread never sits waiting beside it (start_collector_thread *)
(* with its flags was_dropped and col_fd, and events that may be NULL).     *)
HeldIsRead ==
    \A c \in Collectors, fd \in Fds :
        (conn[c] = fd /\ sock[fd].data # <<>> /\ Held(c, fd))
            ~> (conn[c] # fd \/ sock[fd].data = <<>> \/ ~Held(c, fd))

(* mediator_disconnect_all_collectors always comes to an end, whatever the  *)
(* threads wait for, so the main thread accepts connections again.          *)
DisconnectCompletes == closing # {} ~> closing = {}

(* "drops any collectors that are connected through it"                     *)
(* (halt_listening_socket, mediator.c:1000): when a collector has no thread *)
(* its connection is closed, so that it will connect again.                 *)
DisconnectedIsClosed ==
    \A c \in Collectors : c \notin table => conn[c] = None
=============================================================================
