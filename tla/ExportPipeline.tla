--------------------------- MODULE ExportPipeline ---------------------------
(***************************************************************************)
(* The export path of an OpenLI collector: the sync threads announce       *)
(* intercepts to a sequence tracker thread (collector_seqtracker.c), which *)
(* numbers the records of each LIID/CIN and hands them to a pool of        *)
(* encoder workers (encoder_worker.c); the workers push batches of encoded *)
(* results to the forwarding thread (collector_forwarder.c), which puts    *)
(* the records of each LIID/CIN back into order before it appends them to  *)
(* the buffer of their mediator.  Every queue is a ZeroMQ pipe: reliable   *)
(* and first-in first-out between one sender and one receiver, unordered   *)
(* otherwise.                                                              *)
(***************************************************************************)
EXTENDS Naturals, Sequences, FiniteSets

CONSTANTS
    Liids,         \* intercept identifiers
    Kinds,         \* kinds of record numbered apart: "iri", "cc" or both
    Cins,          \* communication identity numbers (sessions, calls)
    Workers,       \* encoder worker threads
    Details,       \* authCC, delivCC and encryption options of an intercept
    Idents,        \* operator, network element and point of the collector
    Mediators,     \* mediator identifiers
    DestOf,        \* the mediator that goes with the details of an intercept
    None,          \* no intercept
    Told,          \* LIIDs whose end is announced to the forwarder as well
    Events,        \* what may happen besides interception, see EventNames
    MaxSeq,        \* bound: records of one stream
    MaxBatch,      \* MAX_ENCODED_RESULT_BATCH
    VersionMod,    \* values of cept_version, a uint8_t
    MaxPublished   \* bound: announcements made by the sync threads

EventNames == {"change", "reload", "withdraw", "encode_error", "no_memory"}

Preencoded == [details : Details, ident : Idents]
TrackedIntercepts == [pre : Preencoded, version : 0..(VersionMod - 1)]

ASSUME ConstantsAssumption ==
    /\ Kinds \subseteq {"iri", "cc"}
    /\ None \notin Details \cup Preencoded \cup TrackedIntercepts
    /\ DestOf \in [Details -> Mediators]
    /\ Told \subseteq Liids
    /\ Events \subseteq EventNames
    /\ MaxSeq \in Nat
    /\ MaxBatch \in Nat \ {0}
    /\ VersionMod \in Nat \ {0}
    /\ MaxPublished \in Nat

VARIABLES
    active,      \* sync threads: details of the announced intercepts
    announced,   \* details under which packets of a LIID were ever captured
    colident,    \* the collector_identity_t shared with the seqtracker
    ended,       \* history: LIIDs of which an intercept has been withdrawn
    published,   \* announcements made so far
    seqctrl,     \* sync -> seqtracker: announcements not yet read
    fwdctrl,     \* sync -> forwarder: LIIDs of INTERCEPT_OVER not yet read
    tracked,     \* seqtracker: intercepts hash, pre-encoded fields and version
    nextseq,     \* seqtracker: cin_seqno_t, the next number of each stream
    encq,        \* seqtracker -> worker: encoding jobs
    templates,   \* worker: cached header templates
    batch,       \* worker: results of the process_job call under way
    resq,        \* worker -> forwarder: batches of results
    incoming,    \* forwarder: rest of the batch being handled
    expected,    \* forwarder: expectedseqno of each reorderer
    pending,     \* forwarder: results that arrived early, by number
    exported,    \* history: results appended to a buffer by this reorderer
    lost,        \* history: numbered records that were discarded
    fwdhalted    \* forwarder_main has left its loop

syncvars == <<active, announced, colident, ended, published>>
seqvars  == <<tracked, nextseq>>
encvars  == <<templates, batch>>
fwdvars  == <<expected, pending, exported, fwdhalted>>
queues   == <<seqctrl, fwdctrl, encq, resq, incoming>>
vars     == <<syncvars, seqvars, encvars, fwdvars, queues, lost>>

(* A stream is what one reorderer and one sequence counter serve: a "cinstr" *)
(* (LIID-CIN) and whether the record is CC or IRI.                           *)
Streams == Liids \X Cins \X Kinds
StreamsOf(l) == {s \in Streams : s[1] = l}

(* preencode_etsi_fields: the fixed header fields of an intercept.           *)
preencode_etsi_fields(d) == [details |-> d, ident |-> colident]

CtrlMsgs == [type : {"details", "changed", "over"}, liid : Liids, details : Details]
            \cup [type : {"reconfigure"}]
Jobs    == [stream : Streams, seqno : Nat, version : 0..(VersionMod - 1), dest : Mediators, pre : Preencoded]
Results == [stream : Streams, seqno : Nat, dest : Mediators, pre : Preencoded, hdr : Preencoded]
ExportedResults == [seqno : Nat, dest : Mediators, to : Mediators, pre : Preencoded, hdr : Preencoded]
NoPending == [n \in {} |-> None]
TemplateKeys == Liids \X Cins \X (0..(VersionMod - 1))

Init ==
    /\ active = [l \in Liids |-> None]
    /\ announced = [l \in Liids |-> {}]
    /\ colident \in Idents
    /\ ended = {}
    /\ published = 0
    /\ seqctrl = <<>>
    /\ fwdctrl = <<>>
    /\ tracked = [l \in Liids |-> None]
    /\ nextseq = [s \in Streams |-> 0]
    /\ encq = [w \in Workers |-> <<>>]
    /\ templates = [w \in Workers |-> [k \in TemplateKeys |-> None]]
    /\ batch = [w \in Workers |-> <<>>]
    /\ resq = [w \in Workers |-> <<>>]
    /\ incoming = <<>>
    /\ expected = [s \in Streams |-> 0]
    /\ pending = [s \in Streams |-> NoPending]
    /\ exported = [s \in Streams |-> <<>>]
    /\ lost = {}
    /\ fwdhalted = FALSE

-----------------------------------------------------------------------------
(* The sync threads (IP, VoIP, e-mail), as far as the export path sees them. *)

MayPublish == published < MaxPublished

publish_openli_msg(msg) ==
    /\ MayPublish
    /\ published' = published + 1
    /\ seqctrl' = Append(seqctrl, msg)

(* A new intercept is announced to the tracker before its sessions are      *)
(* pushed to the packet threads.                                            *)
insert_new_intercept(l, d) ==
    /\ active[l] = None
    /\ publish_openli_msg([type |-> "details", liid |-> l, details |-> d])
    /\ active' = [active EXCEPT ![l] = d]
    /\ announced' = [announced EXCEPT ![l] = @ \cup {d}]
    /\ UNCHANGED <<colident, ended, fwdctrl, seqvars, encq, resq, incoming, encvars, fwdvars, lost>>

(* A modification is published only if it changes how records are encoded;  *)
(* it never changes the mediator of the intercept.                          *)
update_modified_intercept(l, d) ==
    /\ "change" \in Events
    /\ active[l] \notin {None, d}
    /\ DestOf[d] = DestOf[active[l]]
    /\ publish_openli_msg([type |-> "changed", liid |-> l, details |-> d])
    /\ active' = [active EXCEPT ![l] = d]
    /\ announced' = [announced EXCEPT ![l] = @ \cup {d}]
    /\ UNCHANGED <<colident, ended, fwdctrl, seqvars, encq, resq, incoming, encvars, fwdvars, lost>>

(* The end of every intercept is published to the tracker; the VoIP and the *)
(* e-mail code publish it to the forwarder too, the IP code does not.       *)
remove_intercept(l) ==
    /\ "withdraw" \in Events
    /\ active[l] # None
    /\ publish_openli_msg([type |-> "over", liid |-> l, details |-> active[l]])
    /\ fwdctrl' = IF l \in Told THEN Append(fwdctrl, l) ELSE fwdctrl
    /\ active' = [active EXCEPT ![l] = None]
    /\ ended' = ended \cup {l}
    /\ UNCHANGED <<announced, colident, seqvars, encq, resq, incoming, encvars, fwdvars, lost>>

(* A configuration reload replaces the identity of the collector and tells  *)
(* the tracker to pre-encode again.                                         *)
sync_thread_publish_reload(i) ==
    /\ "reload" \in Events
    /\ publish_openli_msg([type |-> "reconfigure"])
    /\ colident' = i
    /\ UNCHANGED <<active, announced, ended, fwdctrl, seqvars, encq, resq, incoming, encvars, fwdvars, lost>>

-----------------------------------------------------------------------------
(* The sequence tracker thread.                                             *)

(* Variant: the version is left alone when the fields change.               *)
SameVersion(v) == v

NextVersion(v) == (v + 1) % VersionMod

ReadSeqCtrl(type) ==
    /\ seqctrl # <<>>
    /\ Head(seqctrl).type = type
    /\ seqctrl' = Tail(seqctrl)

TrackerLeaves == <<syncvars, fwdctrl, encq, resq, incoming, encvars, fwdvars, lost>>

(* A LIID that is already tracked keeps its sequence numbers.               *)
track_new_intercept ==
    /\ ReadSeqCtrl("details")
    /\ LET m == Head(seqctrl) IN
       tracked' = [tracked EXCEPT ![m.liid] =
           [pre |-> preencode_etsi_fields(m.details),
            version |-> IF @ = None THEN 0 ELSE NextVersion(@.version)]]
    /\ UNCHANGED <<nextseq, TrackerLeaves>>

modify_tracked_intercept ==
    /\ ReadSeqCtrl("changed")
    /\ LET m == Head(seqctrl) IN
       tracked' = IF tracked[m.liid] = None THEN tracked
                  ELSE [tracked EXCEPT ![m.liid] =
                           [pre |-> preencode_etsi_fields(m.details),
                            version |-> NextVersion(@.version)]]
    /\ UNCHANGED <<nextseq, TrackerLeaves>>

(* The CIN counters go with the intercept state.                            *)
remove_tracked_intercept ==
    /\ ReadSeqCtrl("over")
    /\ LET l == Head(seqctrl).liid IN
       /\ tracked' = [tracked EXCEPT ![l] = None]
       /\ nextseq' = [s \in Streams |-> IF s[1] = l THEN 0 ELSE nextseq[s]]
    /\ UNCHANGED TrackerLeaves

reconfigure_intercepts ==
    /\ ReadSeqCtrl("reconfigure")
    /\ tracked' = [l \in Liids |->
                     IF tracked[l] = None THEN None
                     ELSE [pre |-> preencode_etsi_fields(tracked[l].pre.details),
                           version |-> NextVersion(tracked[l].version)]]
    /\ UNCHANGED <<nextseq, TrackerLeaves>>

(* A job published by a packet or session thread for stream s, captured     *)
(* under details d, reaches the tracker.  A job for a LIID the tracker does *)
(* not know is dropped, which changes nothing.                              *)
run_encoding_job(s, d, w) ==
    /\ d \in announced[s[1]]
    /\ tracked[s[1]] # None
    /\ nextseq[s] < MaxSeq
    /\ encq' = [encq EXCEPT ![w] = Append(@,
           [stream |-> s, seqno |-> nextseq[s], version |-> tracked[s[1]].version,
            dest |-> DestOf[d], pre |-> tracked[s[1]].pre])]
    /\ nextseq' = [nextseq EXCEPT ![s] = @ + 1]
    /\ UNCHANGED <<syncvars, seqctrl, fwdctrl, tracked, resq, incoming, encvars, fwdvars, lost>>

-----------------------------------------------------------------------------
(* The encoder workers.                                                     *)

TemplateKey(job) == <<job.stream[1], job.stream[2], job.version>>

(* Variant: the cached template is used without looking whether there is one. *)
UncheckedTemplate(w, job) == templates[w][TemplateKey(job)]

(* A cached template keeps the fields it was built from; only the sequence  *)
(* number and the timestamp are rewritten.                                  *)
encode_templated_psheader(w, job) ==
    LET cached == templates[w][TemplateKey(job)]
    IN IF cached = None THEN job.pre ELSE cached

EncodedResult(w, job) ==
    [stream |-> job.stream, seqno |-> job.seqno, dest |-> job.dest,
     pre |-> job.pre, hdr |-> encode_templated_psheader(w, job)]

NextJob(w) ==
    /\ encq[w] # <<>>
    /\ Len(batch[w]) < MaxBatch
    /\ encq' = [encq EXCEPT ![w] = Tail(@)]

(* One turn of the loop of process_job: the job is encoded into the batch.  *)
encode_etsi(w) ==
    /\ NextJob(w)
    /\ LET job == Head(encq[w]) IN
       /\ templates' = [templates EXCEPT ![w][TemplateKey(job)] =
                            encode_templated_psheader(w, job)]
       /\ batch' = [batch EXCEPT ![w] = Append(@, EncodedResult(w, job))]
    /\ UNCHANGED <<syncvars, seqctrl, fwdctrl, seqvars, resq, incoming, fwdvars, lost>>

(* The encoding of the job fails: the job is freed and the loop goes on.    *)
encode_etsi_error(w) ==
    /\ "encode_error" \in Events
    /\ NextJob(w)
    /\ lost' = lost \cup {<<Head(encq[w]).stream, Head(encq[w]).seqno>>}
    /\ UNCHANGED <<syncvars, seqctrl, fwdctrl, seqvars, resq, incoming, encvars, fwdvars>>

(* Variant: a batch is pushed only when it is full.                         *)
PushFullBatches(w) ==
    /\ Len(batch[w]) = MaxBatch
    /\ resq' = [resq EXCEPT ![w] = Append(@, batch[w])]
    /\ batch' = [batch EXCEPT ![w] = <<>>]
    /\ UNCHANGED <<syncvars, seqctrl, fwdctrl, seqvars, encq, incoming, templates, fwdvars, lost>>

(* The loop ends when the batch is full or no job arrives in time.          *)
push_results(w) ==
    /\ batch[w] # <<>>
    /\ Len(batch[w]) = MaxBatch \/ encq[w] = <<>>
    /\ resq' = [resq EXCEPT ![w] = Append(@, batch[w])]
    /\ batch' = [batch EXCEPT ![w] = <<>>]
    /\ UNCHANGED <<syncvars, seqctrl, fwdctrl, seqvars, encq, incoming, templates, fwdvars, lost>>

-----------------------------------------------------------------------------
(* The forwarding thread.                                                   *)

receive_incoming_etsi(w) ==
    /\ ~fwdhalted
    /\ incoming = <<>>
    /\ resq[w] # <<>>
    /\ incoming' = Head(resq[w])
    /\ resq' = [resq EXCEPT ![w] = Tail(@)]
    /\ UNCHANGED <<syncvars, seqctrl, fwdctrl, seqvars, encq, encvars, fwdvars, lost>>

(* INTERCEPT_OVER: every reorderer of the LIID goes, with what it holds.    *)
remove_reorderers ==
    /\ ~fwdhalted
    /\ incoming = <<>>
    /\ fwdctrl # <<>>
    /\ fwdctrl' = Tail(fwdctrl)
    /\ LET gone == StreamsOf(Head(fwdctrl)) IN
       /\ expected' = [s \in Streams |-> IF s \in gone THEN 0 ELSE expected[s]]
       /\ pending' = [s \in Streams |-> IF s \in gone THEN NoPending ELSE pending[s]]
       /\ exported' = [s \in Streams |-> IF s \in gone THEN <<>> ELSE exported[s]]
       /\ lost' = lost \cup UNION {{<<s, n>> : n \in DOMAIN pending[s]} : s \in gone}
    /\ UNCHANGED <<fwdhalted, syncvars, seqctrl, seqvars, encq, resq, incoming, encvars>>

HandleNext ==
    /\ ~fwdhalted
    /\ incoming # <<>>
    /\ incoming' = Tail(incoming)
    /\ UNCHANGED <<syncvars, seqctrl, fwdctrl, seqvars, encq, resq, encvars>>

(* enqueue_result, the number is not the expected one: keep the result,     *)
(* in place of one with the same number if there is one.                    *)
enqueue_result_early ==
    /\ HandleNext
    /\ LET res == Head(incoming)
           s == res.stream
           held == pending[s]
       IN
       /\ res.seqno # expected[s]
       /\ pending' = [pending EXCEPT ![s] =
              [n \in DOMAIN held \cup {res.seqno} |-> IF n = res.seqno THEN res ELSE held[n]]]
    /\ UNCHANGED <<expected, exported, fwdhalted, lost>>

(* Variant: the loop may stop although the next result is there.            *)
ReadyInPart(held, res, end) == \A n \in (res.seqno + 1)..(end - 1) : n \in DOMAIN held

(* The results that can be appended now: res and the unbroken run of        *)
(* results that waited for it, up to but not including number end.          *)
Ready(held, res, end) ==
    /\ \A n \in (res.seqno + 1)..(end - 1) : n \in DOMAIN held
    /\ end \notin DOMAIN held

(* Variant: what waited for the result is counted and never appended.       *)
AppendedAlone(held, res, end) ==
    [i \in 1..(end - res.seqno) \cap {1} |-> [seqno |-> res.seqno, dest |-> res.dest, to |-> res.dest, pre |-> res.pre, hdr |-> res.hdr]]

Appended(held, res, end) ==
    [i \in 1..(end - res.seqno) |->
        LET r == IF i = 1 THEN res ELSE held[res.seqno + i - 1]
        IN [seqno |-> r.seqno, dest |-> r.dest, to |-> res.dest, pre |-> r.pre, hdr |-> r.hdr]]


Without(held, lo, hi) == [n \in DOMAIN held \ (lo..hi) |-> held[n]]

(* enqueue_result, the number is the expected one: append it, then all that *)
(* waited for it, to the buffer of the mediator of this result.             *)
enqueue_result ==
    /\ HandleNext
    /\ LET res == Head(incoming)
           s == res.stream
           held == pending[s]
       IN
       /\ res.seqno = expected[s]
       /\ \E end \in (res.seqno + 1)..MaxSeq :
             /\ Ready(held, res, end)
             /\ expected' = [expected EXCEPT ![s] = end]
             /\ pending' = [pending EXCEPT ![s] = Without(held, res.seqno, end - 1)]
             /\ exported' = [exported EXCEPT ![s] = @ \o Appended(held, res, end)]
    /\ UNCHANGED <<fwdhalted, lost>>

(* The same when append_message_to_buffer runs out of memory at number      *)
(* stop: the record and the mediator are dropped.  If stop was a waiting    *)
(* result, the error ends the thread.                                       *)
enqueue_result_no_memory ==
    /\ "no_memory" \in Events
    /\ HandleNext
    /\ LET res == Head(incoming)
           s == res.stream
           held == pending[s]
       IN
       /\ res.seqno = expected[s]
       /\ \E stop \in res.seqno..(MaxSeq - 1) :
             /\ \A n \in (res.seqno + 1)..stop : n \in DOMAIN held
             /\ expected' = [expected EXCEPT ![s] = stop]
             /\ pending' = [pending EXCEPT ![s] = Without(held, res.seqno, stop)]
             /\ exported' = [exported EXCEPT ![s] = @ \o Appended(held, res, stop)]
             /\ lost' = lost \cup {<<s, stop>>}
             /\ fwdhalted' = (stop # res.seqno)

(* After the loop the thread frees whatever the workers still push.         *)
drain_incoming_etsi(w) ==
    /\ fwdhalted
    /\ resq[w] # <<>>
    /\ resq' = [resq EXCEPT ![w] = Tail(@)]
    /\ lost' = lost \cup {<<Head(resq[w])[i].stream, Head(resq[w])[i].seqno>> : i \in DOMAIN Head(resq[w])}
    /\ UNCHANGED <<syncvars, seqctrl, fwdctrl, seqvars, encq, incoming, encvars, fwdvars>>

-----------------------------------------------------------------------------
SeqtrackerControl ==
    \/ track_new_intercept
    \/ modify_tracked_intercept
    \/ remove_tracked_intercept
    \/ reconfigure_intercepts

Encoder(w) == encode_etsi(w) \/ push_results(w)

Forwarder ==
    \/ remove_reorderers
    \/ \E w \in Workers : receive_incoming_etsi(w)
    \/ enqueue_result_early
    \/ enqueue_result

Next ==
    \/ \E l \in Liids, d \in Details : insert_new_intercept(l, d)
    \/ \E l \in Liids, d \in Details : update_modified_intercept(l, d)
    \/ \E l \in Liids : remove_intercept(l)
    \/ \E i \in Idents : sync_thread_publish_reload(i)
    \/ SeqtrackerControl
    \/ \E s \in Streams, d \in Details, w \in Workers : run_encoding_job(s, d, w)
    \/ \E w \in Workers : Encoder(w) \/ encode_etsi_error(w)
    \/ Forwarder
    \/ enqueue_result_no_memory
    \/ \E w \in Workers : drain_incoming_etsi(w)

Spec == Init /\ [][Next]_vars

(* Every thread loops for ever over its sockets and ZeroMQ serves the       *)
(* senders of one socket in turn, so no queue with messages is neglected.   *)
Fairness ==
    /\ WF_vars(SeqtrackerControl)
    /\ \A w \in Workers : WF_vars(Encoder(w))
    /\ \A w \in Workers : SF_vars(receive_incoming_etsi(w))
    /\ WF_vars(Forwarder)

FairSpec == Spec /\ Fairness

-----------------------------------------------------------------------------
(* Properties.                                                              *)

TypeOK ==
    /\ active \in [Liids -> Details \cup {None}]
    /\ announced \in [Liids -> SUBSET Details]
    /\ colident \in Idents
    /\ ended \subseteq Liids
    /\ published \in Nat
    /\ seqctrl \in Seq(CtrlMsgs)
    /\ fwdctrl \in Seq(Liids)
    /\ tracked \in [Liids -> TrackedIntercepts \cup {None}]
    /\ nextseq \in [Streams -> Nat]
    /\ encq \in [Workers -> Seq(Jobs)]
    /\ templates \in [Workers -> [TemplateKeys -> Preencoded \cup {None}]]
    /\ batch \in [Workers -> Seq(Results)]
    /\ resq \in [Workers -> Seq(Seq(Results))]
    /\ incoming \in Seq(Results)
    /\ expected \in [Streams -> Nat]
    /\ DOMAIN pending = Streams
    /\ \A s \in Streams :
          /\ DOMAIN pending[s] \subseteq Nat
          /\ \A n \in DOMAIN pending[s] : pending[s][n] \in Results
    /\ exported \in [Streams -> Seq(ExportedResults)]
    /\ lost \subseteq Streams \X Nat
    /\ fwdhalted \in BOOLEAN

(* Whatever order the workers finish in, whichever records are lost and     *)
(* however often the intercept comes and goes, a reorderer appends the      *)
(* records of its LIID/CIN in the order of their numbers: 0, 1, 2, ...      *)
(* without a gap or a repetition (enqueue_result).                          *)
InOrderExport ==
    \A s \in Streams :
        /\ Len(exported[s]) = expected[s]
        /\ \A i \in 1..Len(exported[s]) : exported[s][i].seqno = i - 1

(* A record never stays in the reorderer once everything before it has been *)
(* appended: the run that the while loop of enqueue_result drains is the    *)
(* whole of what became ready.                                              *)
NothingReadyHeld ==
    \A s \in Streams : expected[s] \notin DOMAIN pending[s]

(* Where record n of stream s is.                                           *)
Places(s, n) ==
    LET Is(r) == r.stream = s /\ r.seqno = n IN
    UNION {{<<"encq", w, i>> : i \in {j \in DOMAIN encq[w] : Is(encq[w][j])}} : w \in Workers}
    \cup UNION {{<<"batch", w, i>> : i \in {j \in DOMAIN batch[w] : Is(batch[w][j])}} : w \in Workers}
    \cup UNION {UNION {{<<"resq", w, b, i>> : i \in {j \in DOMAIN resq[w][b] : Is(resq[w][b][j])}}
                          : b \in DOMAIN resq[w]} : w \in Workers}
    \cup {<<"incoming", i>> : i \in {j \in DOMAIN incoming : Is(incoming[j])}}
    \cup {<<"pending", i>> : i \in DOMAIN pending[s] \cap {n}}
    \cup {<<"exported", i>> : i \in {j \in DOMAIN exported[s] : exported[s][j].seqno = n}}
    \cup {<<"lost", p>> : p \in lost \cap {<<s, n>>}}


(* The header of a record carries the intercept details and the collector   *)
(* identity that were current when the tracker accepted it: the cached      *)
(* header templates of the workers never outlive the pre-encoded fields     *)
(* they were made from (encode_templated_psheader), whatever is modified    *)
(* and reloaded, as long as the intercept is not withdrawn.                 *)
HeaderCurrent ==
    \A s \in Streams : \A i \in DOMAIN exported[s] :
        s[1] \notin ended => exported[s][i].hdr = exported[s][i].pre

(* The same for an LIID that is used again ("All encoders need to know that *)
(* they should clear all templates for this particular intercept").         *)
HeaderCurrentAgain ==
    \A s \in Streams : \A i \in DOMAIN exported[s] : exported[s][i].hdr = exported[s][i].pre

(* A result is buffered for the mediator it is destined for                 *)
(* (handle_encoded_result: "create a destination for that mediator and      *)
(* buffer results until we get a corresponding announcement").              *)
OwnMediator ==
    \A s \in Streams : \A i \in DOMAIN exported[s] : exported[s][i].to = exported[s][i].dest

(* Every record the tracker has numbered is appended to a buffer in the     *)
(* end, unless an error path discards a record or the intercept is          *)
(* withdrawn.                                                               *)
EventuallyExported ==
    \A s \in Streams : \A n \in 1..MaxSeq :
        nextseq[s] >= n ~> (Len(exported[s]) >= n \/ lost # {} \/ s[1] \in ended)
=============================================================================
