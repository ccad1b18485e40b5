------------------------ MODULE ExportPipelineProofs ------------------------
(* Proofs of the safety properties of ExportPipeline for every number of    *)
(* intercepts, workers and records.                                         *)
EXTENDS ExportPipeline, TLAPS

(* A result waits under its own number (enqueue_result keys pending by      *)
(* res->seqno).                                                             *)
PendingKeyed ==
    \A s \in Streams : \A n \in DOMAIN pending[s] : pending[s][n].seqno = n

(* The inductive invariant of the reorderers.                               *)
ReordererInv == TypeOK /\ PendingKeyed /\ InOrderExport /\ NothingReadyHeld

-----------------------------------------------------------------------------
(* A new reorderer holds no result (the empty Judy array pending).          *)
LEMMA NoPendingDomain == DOMAIN NoPending = {}
  BY DEF NoPending

(* The threads start with their queues and tables typed.                    *)
LEMMA InitType == Init => TypeOK
<1> SUFFICES ASSUME Init PROVE TypeOK
  OBVIOUS
<1>1. /\ DOMAIN pending = Streams
      /\ \A s \in Streams : /\ DOMAIN pending[s] \subseteq Nat
                            /\ \A n \in DOMAIN pending[s] : pending[s][n] \in Results
  BY NoPendingDomain, Zenon DEF Init
<1>2. /\ seqctrl \in Seq(CtrlMsgs)
      /\ fwdctrl \in Seq(Liids)
      /\ encq \in [Workers -> Seq(Jobs)]
      /\ batch \in [Workers -> Seq(Results)]
      /\ resq \in [Workers -> Seq(Seq(Results))]
      /\ incoming \in Seq(Results)
      /\ exported \in [Streams -> Seq(ExportedResults)]
  BY DEF Init
<1>3. templates \in [Workers -> [TemplateKeys -> Preencoded \cup {None}]]
  BY Zenon DEF Init
<1> QED BY <1>1, <1>2, <1>3 DEF Init, TypeOK

(* The announcements of the sync threads.                                   *)
LEMMA InsertType ==
  ASSUME TypeOK, NEW l \in Liids, NEW d \in Details, insert_new_intercept(l, d)
  PROVE  TypeOK'
  BY SMTT(60) DEF TypeOK, insert_new_intercept, publish_openli_msg, CtrlMsgs, seqvars, encvars, fwdvars

(* A modification published by update_modified_intercept keeps the types.   *)
LEMMA ModifyType ==
  ASSUME TypeOK, NEW l \in Liids, NEW d \in Details, update_modified_intercept(l, d)
  PROVE  TypeOK'
  BY SMTT(60) DEF TypeOK, update_modified_intercept, publish_openli_msg, CtrlMsgs, seqvars, encvars, fwdvars

(* The end of an intercept, published to tracker and forwarder, keeps the   *)
(* types.                                                                   *)
LEMMA RemoveType ==
  ASSUME TypeOK, NEW l \in Liids, remove_intercept(l)
  PROVE  TypeOK'
  BY SMTT(60) DEF TypeOK, remove_intercept, publish_openli_msg, CtrlMsgs, seqvars, encvars, fwdvars

(* A reload published by sync_thread_publish_reload keeps the types.        *)
LEMMA ReloadType ==
  ASSUME TypeOK, NEW i \in Idents, sync_thread_publish_reload(i)
  PROVE  TypeOK'
  BY SMTT(60) DEF TypeOK, sync_thread_publish_reload, publish_openli_msg, CtrlMsgs, seqvars, encvars, fwdvars

(* The version that modify_tracked_intercept moves to is again a version.   *)
LEMMA VersionType ==
  ASSUME NEW v \in 0..(VersionMod - 1)
  PROVE  NextVersion(v) \in 0..(VersionMod - 1)
  BY ConstantsAssumption DEF NextVersion

(* The control messages that a sequence tracker reads keep the types.       *)
LEMMA TrackerType ==
  ASSUME TypeOK, SeqtrackerControl
  PROVE  TypeOK'
<1> DEFINE m == Head(seqctrl)
<1>0. /\ seqctrl # <<>>
      /\ seqctrl' = Tail(seqctrl)
      /\ UNCHANGED TrackerLeaves
  BY DEF SeqtrackerControl, track_new_intercept, modify_tracked_intercept,
         remove_tracked_intercept, reconfigure_intercepts, ReadSeqCtrl
<1>1. m \in CtrlMsgs /\ seqctrl' \in Seq(CtrlMsgs)
  BY <1>0 DEF TypeOK
<1>2. \A d \in Details : preencode_etsi_fields(d) \in Preencoded
  BY DEF TypeOK, preencode_etsi_fields, Preencoded
<1>3. 0 \in 0..(VersionMod - 1)
  BY ConstantsAssumption
<1>4. /\ tracked' \in [Liids -> TrackedIntercepts \cup {None}]
      /\ nextseq' \in [Streams -> Nat]
  <2> USE DEF TypeOK, TrackedIntercepts
  <2>1. CASE track_new_intercept
    BY <1>1, <1>2, <1>3, <2>1, VersionType DEF track_new_intercept, ReadSeqCtrl, CtrlMsgs
  <2>2. CASE modify_tracked_intercept
    BY <1>1, <1>2, <2>2, VersionType DEF modify_tracked_intercept, ReadSeqCtrl, CtrlMsgs
  <2>3. CASE remove_tracked_intercept
    BY <2>3 DEF remove_tracked_intercept
  <2>4. CASE reconfigure_intercepts
    BY <1>2, <2>4, VersionType DEF reconfigure_intercepts, Preencoded
  <2> QED BY <2>1, <2>2, <2>3, <2>4 DEF SeqtrackerControl
<1> QED BY <1>0, <1>1, <1>4 DEF TypeOK, TrackerLeaves, syncvars, encvars, fwdvars

(* A job that run_encoding_job numbers and queues is well formed.           *)
LEMMA JobType ==
  ASSUME TypeOK, NEW s \in Streams, NEW d \in Details, NEW w \in Workers,
         run_encoding_job(s, d, w)
  PROVE  TypeOK'
<1> DEFINE job == [stream |-> s, seqno |-> nextseq[s], version |-> tracked[s[1]].version,
                   dest |-> DestOf[d], pre |-> tracked[s[1]].pre]
<1>1. tracked[s[1]] \in TrackedIntercepts
  BY DEF TypeOK, run_encoding_job, Streams
<1>2. job \in Jobs
  BY <1>1, ConstantsAssumption DEF TypeOK, Jobs, TrackedIntercepts
<1>3. encq' \in [Workers -> Seq(Jobs)]
  BY <1>2 DEF TypeOK, run_encoding_job
<1>4. nextseq' \in [Streams -> Nat]
  BY DEF TypeOK, run_encoding_job
<1> QED BY <1>3, <1>4 DEF TypeOK, run_encoding_job, syncvars, encvars, fwdvars

(* Taking the first message of a queue leaves queues.                       *)
LEMMA TakeHead ==
  ASSUME NEW S, NEW q \in [Workers -> Seq(S)], NEW w \in Workers, q[w] # <<>>
  PROVE  Head(q[w]) \in S /\ [q EXCEPT ![w] = Tail(@)] \in [Workers -> Seq(S)]
<1>1. q[w] \in Seq(S)
  OBVIOUS
<1>2. Head(q[w]) \in S /\ Tail(q[w]) \in Seq(S)
  BY <1>1
<1> QED BY <1>2

(* What an encoder worker does in process_job keeps the types.              *)
LEMMA EncoderType ==
  ASSUME TypeOK, NEW w \in Workers, Encoder(w) \/ encode_etsi_error(w)
  PROVE  TypeOK'
<1>1. CASE encode_etsi(w)
  <2> DEFINE job == Head(encq[w])
             hdr == encode_templated_psheader(w, job)
  <2>1. job \in Jobs /\ encq' \in [Workers -> Seq(Jobs)]
    <3>1. /\ encq \in [Workers -> Seq(Jobs)] /\ encq[w] # <<>>
          /\ encq' = [encq EXCEPT ![w] = Tail(@)]
      BY <1>1 DEF TypeOK, encode_etsi, NextJob
    <3> QED BY <3>1, TakeHead, Zenon
  <2>2. hdr \in Preencoded
    <3>1. CASE templates[w][TemplateKey(job)] = None
      BY <2>1, <3>1 DEF encode_templated_psheader, Jobs
    <3>2. CASE templates[w][TemplateKey(job)] # None
      <4>1. TemplateKey(job) \in TemplateKeys
        BY <2>1 DEF TemplateKey, TemplateKeys, Jobs, Streams
      <4>2. templates[w][TemplateKey(job)] \in Preencoded \cup {None}
        BY <4>1 DEF TypeOK
      <4> QED BY <3>2, <4>2 DEF encode_templated_psheader
    <3> QED BY <3>1, <3>2
  <2>3. EncodedResult(w, job) \in Results
    BY <2>1, <2>2 DEF EncodedResult, Results, Jobs
  <2>4. templates' \in [Workers -> [TemplateKeys -> Preencoded \cup {None}]]
    BY <1>1, <2>2 DEF encode_etsi, TypeOK
  <2>5. batch' \in [Workers -> Seq(Results)]
    BY <1>1, <2>3 DEF encode_etsi, TypeOK
  <2> QED BY <1>1, <2>1, <2>4, <2>5 DEF encode_etsi, TypeOK, syncvars, seqvars, fwdvars
<1>2. CASE encode_etsi_error(w)
  <2>1. encq' \in [Workers -> Seq(Jobs)] /\ Head(encq[w]) \in Jobs
    <3>1. /\ encq \in [Workers -> Seq(Jobs)] /\ encq[w] # <<>>
          /\ encq' = [encq EXCEPT ![w] = Tail(@)]
      BY <1>2 DEF TypeOK, encode_etsi_error, NextJob
    <3> QED BY <3>1, TakeHead, Zenon
  <2>2. lost' \subseteq Streams \X Nat
    <3>1. <<Head(encq[w]).stream, Head(encq[w]).seqno>> \in Streams \X Nat
      BY <2>1 DEF Jobs
    <3>2. lost' = lost \cup {<<Head(encq[w]).stream, Head(encq[w]).seqno>>}
      BY <1>2 DEF encode_etsi_error
    <3>3. lost \subseteq Streams \X Nat
      BY DEF TypeOK
    <3> QED BY <3>1, <3>2, <3>3, Zenon
  <2> QED BY <1>2, <2>1, <2>2 DEF encode_etsi_error, TypeOK, syncvars, seqvars, encvars, fwdvars
<1>3. CASE push_results(w)
  <2>1. resq' \in [Workers -> Seq(Seq(Results))] /\ batch' \in [Workers -> Seq(Results)]
    BY <1>3 DEF TypeOK, push_results
  <2> QED BY <1>3, <2>1 DEF push_results, TypeOK, syncvars, seqvars, fwdvars
<1> QED BY <1>1, <1>2, <1>3 DEF Encoder

(* res and the results held from the number after it up to end form a run.  *)
IsRun(held, res, end) ==
    /\ res \in Results
    /\ DOMAIN held \subseteq Nat
    /\ \A n \in DOMAIN held : held[n] \in Results /\ held[n].seqno = n
    /\ end \in Nat /\ end >= res.seqno
    /\ \A n \in (res.seqno + 1)..(end - 1) : n \in DOMAIN held

(* What is appended for a run: its records, consecutively numbered.         *)
RunAppended(held, res, end) ==
    /\ Appended(held, res, end) \in Seq(ExportedResults)
    /\ Len(Appended(held, res, end)) = end - res.seqno
    /\ \A i \in 1..(end - res.seqno) : Appended(held, res, end)[i].seqno = res.seqno + i - 1

(* The run of results that enqueue_result appends is well formed and        *)
(* numbered without gaps.                                                   *)
LEMMA AppendedType ==
  ASSUME NEW held, NEW res, NEW end, IsRun(held, res, end)
  PROVE  RunAppended(held, res, end)
<1> DEFINE k == end - res.seqno
           src(i) == IF i = 1 THEN res ELSE held[res.seqno + i - 1]
           rec(i) == [seqno |-> src(i).seqno, dest |-> src(i).dest, to |-> res.dest,
                      pre |-> src(i).pre, hdr |-> src(i).hdr]
<1>1. k \in Nat /\ res.seqno \in Nat
  BY DEF IsRun, Results
<1>2. \A i \in 1..k : src(i) \in Results /\ src(i).seqno = res.seqno + i - 1
  BY <1>1 DEF IsRun, Results
<1>3. \A i \in 1..k : rec(i) \in ExportedResults
  BY <1>2 DEF IsRun, Results, ExportedResults
<1>4. Appended(held, res, end) = [i \in 1..k |-> rec(i)]
  BY DEF Appended
<1> HIDE DEF rec, k
<1>5. Appended(held, res, end) \in Seq(ExportedResults)
  BY <1>1, <1>3, <1>4
<1>6. Len(Appended(held, res, end)) = k
  BY <1>1, <1>4
<1>7. \A i \in 1..k : Appended(held, res, end)[i].seqno = res.seqno + i - 1
  BY <1>2, <1>4 DEF rec
<1> QED BY <1>5, <1>6, <1>7 DEF k, RunAppended

(* The forwarder actions that leave the reorderers alone.                   *)
LEMMA ReceiveType ==
  ASSUME TypeOK, NEW w \in Workers, receive_incoming_etsi(w) \/ drain_incoming_etsi(w)
  PROVE  TypeOK' /\ UNCHANGED fwdvars
<1>1. CASE receive_incoming_etsi(w)
  <2>1. incoming' \in Seq(Results) /\ resq' \in [Workers -> Seq(Seq(Results))]
    <3>1. /\ resq \in [Workers -> Seq(Seq(Results))] /\ resq[w] # <<>>
          /\ incoming' = Head(resq[w]) /\ resq' = [resq EXCEPT ![w] = Tail(@)]
      BY <1>1 DEF TypeOK, receive_incoming_etsi
    <3> QED BY <3>1, TakeHead, Zenon
  <2> QED BY <1>1, <2>1 DEF receive_incoming_etsi, TypeOK, syncvars, seqvars, encvars, fwdvars
<1>2. CASE drain_incoming_etsi(w)
  <2>1. Head(resq[w]) \in Seq(Results) /\ resq' \in [Workers -> Seq(Seq(Results))]
    <3>1. /\ resq \in [Workers -> Seq(Seq(Results))] /\ resq[w] # <<>>
          /\ resq' = [resq EXCEPT ![w] = Tail(@)]
      BY <1>2 DEF TypeOK, drain_incoming_etsi
    <3> QED BY <3>1, TakeHead, Zenon
  <2>2. \A i \in DOMAIN Head(resq[w]) :
          <<Head(resq[w])[i].stream, Head(resq[w])[i].seqno>> \in Streams \X Nat
    <3> DEFINE b == Head(resq[w])
    <3> SUFFICES ASSUME NEW i \in DOMAIN b PROVE <<b[i].stream, b[i].seqno>> \in Streams \X Nat
      OBVIOUS
    <3>1. b[i] \in Results
      BY <2>1
    <3> QED BY <3>1 DEF Results
  <2>3. lost' \subseteq Streams \X Nat
    <3> DEFINE b == Head(resq[w])
               f(i) == <<b[i].stream, b[i].seqno>>
    <3>1. lost \subseteq Streams \X Nat /\ lost' = lost \cup {f(i) : i \in DOMAIN b}
      BY <1>2 DEF TypeOK, drain_incoming_etsi
    <3>2. \A i \in DOMAIN b : f(i) \in Streams \X Nat
      BY <2>2
    <3> HIDE DEF f
    <3> QED BY <3>1, <3>2
  <2> QED BY <1>2, <2>1, <2>3 DEF drain_incoming_etsi, TypeOK, syncvars, seqvars, encvars, fwdvars
<1> QED BY <1>1, <1>2

(* remove_reorderers keeps the invariant: the streams of the ended          *)
(* intercept start afresh.                                                  *)
LEMMA RemoveReorderers ==
  ASSUME ReordererInv, remove_reorderers
  PROVE  ReordererInv'
<1> DEFINE gone == StreamsOf(Head(fwdctrl))
<1> USE DEF ReordererInv
<1>1. fwdctrl' \in Seq(Liids)
  BY DEF TypeOK, remove_reorderers
<1>2. \A s \in Streams : \/ /\ expected'[s] = 0
                             /\ DOMAIN pending'[s] = {}
                             /\ exported'[s] = <<>>
                          \/ /\ expected'[s] = expected[s]
                             /\ pending'[s] = pending[s]
                             /\ exported'[s] = exported[s]
  BY NoPendingDomain DEF remove_reorderers
<1>3. /\ expected' \in [Streams -> Nat]
      /\ DOMAIN pending' = Streams
      /\ exported' \in [Streams -> Seq(ExportedResults)]
  <2>1. /\ expected \in [Streams -> Nat]
        /\ exported \in [Streams -> Seq(ExportedResults)]
    BY DEF TypeOK
  <2>2. <<>> \in Seq(ExportedResults)
    OBVIOUS
  <2>3. /\ expected' = [s \in Streams |-> IF s \in gone THEN 0 ELSE expected[s]]
        /\ DOMAIN pending' = Streams
        /\ exported' = [s \in Streams |-> IF s \in gone THEN <<>> ELSE exported[s]]
    BY DEF remove_reorderers
  <2> HIDE DEF gone, ReordererInv
  <2>4. expected' \in [Streams -> Nat]
    BY <2>1, <2>3
  <2>5. exported' \in [Streams -> Seq(ExportedResults)]
    BY <2>1, <2>2, <2>3, Zenon
  <2> QED BY <2>3, <2>4, <2>5
<1>4. \A s \in Streams : /\ DOMAIN pending'[s] \subseteq Nat
                         /\ \A n \in DOMAIN pending'[s] : pending'[s][n] \in Results
  BY <1>2 DEF TypeOK
<1>5. lost' \subseteq Streams \X Nat
  <2>1. gone \subseteq Streams
    BY DEF StreamsOf
  <2>2. /\ lost' = lost \cup UNION {{<<s, n>> : n \in DOMAIN pending[s]} : s \in gone}
        /\ lost \subseteq Streams \X Nat
        /\ \A s \in Streams : DOMAIN pending[s] \subseteq Nat
    BY DEF remove_reorderers, TypeOK
  <2> HIDE DEF gone, ReordererInv
  <2> QED BY <2>1, <2>2
<1>6. TypeOK'
  BY <1>1, <1>3, <1>4, <1>5 DEF TypeOK, remove_reorderers, syncvars, seqvars, encvars
<1>7. PendingKeyed'
  BY <1>2 DEF PendingKeyed
<1>8. InOrderExport'
  BY <1>2 DEF InOrderExport
<1>9. NothingReadyHeld'
  BY <1>2 DEF NothingReadyHeld
<1> QED BY <1>6, <1>7, <1>8, <1>9

(* What every handling of a result leaves in order.                         *)
LEMMA HandleNextType ==
  ASSUME TypeOK, HandleNext
  PROVE  /\ Head(incoming) \in Results
         /\ incoming' \in Seq(Results)
  BY DEF TypeOK, HandleNext

(* A result that enqueue_result stores for later keeps the invariant.       *)
LEMMA EnqueueEarly ==
  ASSUME ReordererInv, enqueue_result_early
  PROVE  ReordererInv'
<1> DEFINE res == Head(incoming)
           s == res.stream
<1> USE DEF ReordererInv
<1>1. res \in Results /\ incoming' \in Seq(Results) /\ s \in Streams /\ res.seqno \in Nat
  BY HandleNextType DEF enqueue_result_early, Results
<1>2. /\ DOMAIN pending' = Streams
      /\ \A t \in Streams : t # s => pending'[t] = pending[t]
      /\ DOMAIN pending'[s] = DOMAIN pending[s] \cup {res.seqno}
      /\ \A n \in DOMAIN pending'[s] :
            pending'[s][n] = IF n = res.seqno THEN res ELSE pending[s][n]
  BY <1>1 DEF TypeOK, enqueue_result_early
<1>3. res.seqno # expected[s] /\ UNCHANGED <<expected, exported, fwdhalted, lost>>
  BY DEF enqueue_result_early
<1> HIDE DEF res, s
<1>4. \A t \in Streams : /\ DOMAIN pending'[t] \subseteq Nat
                         /\ \A n \in DOMAIN pending'[t] : pending'[t][n] \in Results
  <2> SUFFICES ASSUME NEW t \in Streams
               PROVE  /\ DOMAIN pending'[t] \subseteq Nat
                      /\ \A n \in DOMAIN pending'[t] : pending'[t][n] \in Results
    OBVIOUS
  <2>1. CASE t = s
    BY <1>1, <1>2, <2>1 DEF TypeOK
  <2>2. CASE t # s
    BY <1>1, <1>2, <2>2 DEF TypeOK
  <2> QED BY <2>1, <2>2
<1>5. TypeOK'
  BY <1>1, <1>2, <1>3, <1>4 DEF TypeOK, enqueue_result_early, HandleNext, syncvars, seqvars, encvars
<1>6. PendingKeyed'
  <2> SUFFICES ASSUME NEW t \in Streams, NEW n \in DOMAIN pending'[t]
               PROVE  pending'[t][n].seqno = n
    BY DEF PendingKeyed
  <2>0. PendingKeyed
    OBVIOUS
  <2> HIDE DEF ReordererInv
  <2>1. CASE t = s /\ n = res.seqno
    BY <1>2, <2>1
  <2>2. CASE t = s /\ n # res.seqno
    BY <1>1, <1>2, <2>0, <2>2 DEF PendingKeyed
  <2>3. CASE t # s
    BY <1>2, <2>0, <2>3, Zenon DEF PendingKeyed
  <2> QED BY <2>1, <2>2, <2>3
<1>7. InOrderExport'
  BY <1>3 DEF InOrderExport
<1>8. NothingReadyHeld'
  <2> SUFFICES ASSUME NEW t \in Streams PROVE expected'[t] \notin DOMAIN pending'[t]
    BY DEF NothingReadyHeld
  <2>1. CASE t = s
    BY <1>1, <1>2, <1>3, <2>1 DEF NothingReadyHeld
  <2>2. CASE t # s
    BY <1>2, <1>3, <2>2 DEF NothingReadyHeld
  <2> QED BY <2>1, <2>2
<1> QED BY <1>5, <1>6, <1>7, <1>8

(* A run appended to an ordered sequence leaves it ordered.                 *)
LEMMA OrderedAppend ==
  ASSUME NEW a \in Seq(ExportedResults), NEW b \in Seq(ExportedResults),
         \A i \in 1..Len(a) : a[i].seqno = i - 1,
         \A i \in 1..Len(b) : b[i].seqno = Len(a) + i - 1
  PROVE  /\ Len(a \o b) = Len(a) + Len(b)
         /\ \A i \in 1..(Len(a) + Len(b)) : (a \o b)[i].seqno = i - 1
<1>1. Len(a \o b) = Len(a) + Len(b) /\ Len(a) \in Nat /\ Len(b) \in Nat
  OBVIOUS
<1>2. ASSUME NEW i \in 1..(Len(a) + Len(b)) PROVE (a \o b)[i].seqno = i - 1
  <2>1. CASE i <= Len(a)
    <3>1. (a \o b)[i] = a[i]
      BY <1>1, <2>1
    <3> QED BY <1>1, <2>1, <3>1
  <2>2. CASE i > Len(a)
    <3>1. (a \o b)[i] = b[i - Len(a)]
      BY <1>1, <2>2
    <3>2. i - Len(a) \in 1..Len(b)
      BY <1>1, <2>2
    <3>3. b[i - Len(a)].seqno = Len(a) + (i - Len(a)) - 1
      BY <3>2
    <3> QED BY <1>1, <3>1, <3>3
  <2> QED BY <1>1, <2>1, <2>2
<1> QED BY <1>1, <1>2

(* What both ends of enqueue_result do: res and the results that waited for *)
(* it are appended up to but not including number end, and the numbers from *)
(* res.seqno to gone leave pending.                                         *)
DrainsRun(res, s, end, gone) ==
    /\ res = Head(incoming) /\ s = res.stream /\ res.seqno = expected[s]
    /\ end \in Nat /\ end >= res.seqno
    /\ gone = end \/ (gone \in Nat /\ gone + 1 = end /\ end \notin DOMAIN pending[s])
    /\ \A n \in (res.seqno + 1)..(end - 1) : n \in DOMAIN pending[s]
    /\ expected' = [expected EXCEPT ![s] = end]
    /\ pending' = [pending EXCEPT ![s] = Without(pending[s], res.seqno, gone)]
    /\ exported' = [exported EXCEPT ![s] = @ \o Appended(pending[s], res, end)]
    /\ lost' \subseteq Streams \X Nat
    /\ fwdhalted' \in BOOLEAN

(* Draining a run keeps the invariant, whether all of it was appended or    *)
(* memory ran out in the middle.                                            *)
LEMMA ExportRun ==
  ASSUME ReordererInv, HandleNext, NEW res, NEW s, NEW end, NEW gone,
         DrainsRun(res, s, end, gone)
  PROVE  ReordererInv'
<1> DEFINE held == pending[s]
           new == Appended(held, res, end)
<1>0. TypeOK /\ PendingKeyed /\ InOrderExport /\ NothingReadyHeld
  BY DEF ReordererInv
<1>1. res \in Results /\ incoming' \in Seq(Results) /\ s \in Streams /\ res.seqno \in Nat
  BY <1>0, HandleNextType DEF Results, DrainsRun
<1>a. /\ end \in Nat /\ end >= res.seqno
      /\ end \notin DOMAIN held \ (res.seqno..gone)
  <2>1. end \in Nat /\ end >= res.seqno /\ (gone = end \/ end \notin DOMAIN held)
    BY DEF DrainsRun
  <2>2. end \in res.seqno..end
    BY <1>1, <2>1
  <2> QED BY <2>1, <2>2, Zenon
<1>2. /\ DOMAIN held \subseteq Nat
      /\ \A n \in DOMAIN held : held[n] \in Results /\ held[n].seqno = n
  BY <1>0, <1>1 DEF TypeOK, PendingKeyed
<1>3. /\ new \in Seq(ExportedResults)
      /\ Len(new) = end - res.seqno
      /\ \A i \in 1..(end - res.seqno) : new[i].seqno = res.seqno + i - 1
  <2>1. IsRun(held, res, end)
    BY <1>1, <1>2 DEF IsRun, DrainsRun
  <2>2. RunAppended(held, res, end)
    BY <2>1, AppendedType, Zenon
  <2> QED BY <2>2 DEF RunAppended
<1>4. /\ DOMAIN pending' = Streams
      /\ \A t \in Streams : t # s => pending'[t] = pending[t]
      /\ DOMAIN pending'[s] = DOMAIN held \ (res.seqno..gone)
      /\ \A n \in DOMAIN pending'[s] : pending'[s][n] = held[n]
  <2>1. DOMAIN pending = Streams
    BY <1>0 DEF TypeOK
  <2>2. pending' = [pending EXCEPT ![s] = [n \in DOMAIN held \ (res.seqno..gone) |-> held[n]]]
    BY DEF DrainsRun, Without
  <2> QED BY <1>1, <2>1, <2>2
<1>5. /\ expected' \in [Streams -> Nat]
      /\ expected'[s] = end
      /\ \A t \in Streams : t # s => expected'[t] = expected[t]
  <2>1. expected' = [expected EXCEPT ![s] = end] /\ expected \in [Streams -> Nat]
    BY <1>0 DEF TypeOK, DrainsRun
  <2> QED BY <1>1, <1>a, <2>1
<1>7. /\ exported[s] \in Seq(ExportedResults)
      /\ Len(exported[s]) = res.seqno
      /\ \A i \in 1..Len(exported[s]) : exported[s][i].seqno = i - 1
  BY <1>0, <1>1 DEF TypeOK, InOrderExport, DrainsRun
<1>6. /\ exported' \in [Streams -> Seq(ExportedResults)]
      /\ exported'[s] = exported[s] \o new
      /\ \A t \in Streams : t # s => exported'[t] = exported[t]
  <2>1. /\ exported' = [exported EXCEPT ![s] = exported[s] \o new]
        /\ exported \in [Streams -> Seq(ExportedResults)]
    BY <1>0 DEF TypeOK, DrainsRun
  <2> HIDE DEF new
  <2>2. exported[s] \o new \in Seq(ExportedResults)
    BY <1>3, <1>7
  <2> QED BY <1>1, <2>1, <2>2
<1> HIDE DEF new, held
<1>8. \A t \in Streams : /\ DOMAIN pending'[t] \subseteq Nat
                         /\ \A n \in DOMAIN pending'[t] : pending'[t][n] \in Results
  <2> SUFFICES ASSUME NEW t \in Streams
               PROVE  /\ DOMAIN pending'[t] \subseteq Nat
                      /\ \A n \in DOMAIN pending'[t] : pending'[t][n] \in Results
    OBVIOUS
  <2>1. CASE t = s
    BY <1>2, <1>4, <2>1, Zenon
  <2>2. CASE t # s
    BY <1>0, <1>4, <2>2 DEF TypeOK
  <2> QED BY <2>1, <2>2
<1>9. TypeOK'
  <2>1. lost' \subseteq Streams \X Nat /\ fwdhalted' \in BOOLEAN
    BY DEF DrainsRun
  <2> QED BY <1>0, <1>1, <1>4, <1>5, <1>6, <1>8, <2>1
          DEF TypeOK, HandleNext, syncvars, seqvars, encvars
<1>10. PendingKeyed'
  <2> SUFFICES ASSUME NEW t \in Streams, NEW n \in DOMAIN pending'[t]
               PROVE  pending'[t][n].seqno = n
    BY DEF PendingKeyed
  <2>1. CASE t = s
    BY <1>2, <1>4, <2>1, Zenon
  <2>2. CASE t # s
    BY <1>0, <1>4, <2>2, Zenon DEF PendingKeyed
  <2> QED BY <2>1, <2>2
<1>11. NothingReadyHeld'
  <2> SUFFICES ASSUME NEW t \in Streams PROVE expected'[t] \notin DOMAIN pending'[t]
    BY DEF NothingReadyHeld
  <2>1. CASE t = s
    BY <1>4, <1>5, <1>a, <2>1, Zenon
  <2>2. CASE t # s
    BY <1>0, <1>4, <1>5, <2>2, Zenon DEF NothingReadyHeld
  <2> QED BY <2>1, <2>2
<1>12. InOrderExport'
  <2>1. /\ Len(exported'[s]) = end
        /\ \A i \in 1..end : exported'[s][i].seqno = i - 1
    <3>1. /\ Len(exported[s] \o new) = Len(exported[s]) + Len(new)
          /\ \A i \in 1..(Len(exported[s]) + Len(new)) : (exported[s] \o new)[i].seqno = i - 1
      <4>1. \A i \in 1..Len(new) : new[i].seqno = Len(exported[s]) + i - 1
        BY <1>3, <1>7
      <4> QED BY <1>3, <1>7, <4>1, OrderedAppend, Zenon
    <3>2. Len(exported[s]) + Len(new) = end
      BY <1>1, <1>a, <1>3, <1>7
    <3>3. exported'[s] = exported[s] \o new
      BY <1>6
    <3> HIDE DEF new
    <3> QED BY <3>1, <3>2, <3>3
  <2>2. \A t \in Streams : t # s => /\ Len(exported'[t]) = expected'[t]
                                    /\ \A i \in 1..Len(exported'[t]) : exported'[t][i].seqno = i - 1
    <3> SUFFICES ASSUME NEW t \in Streams, t # s
                 PROVE  /\ Len(exported'[t]) = expected'[t]
                        /\ \A i \in 1..Len(exported'[t]) : exported'[t][i].seqno = i - 1
      OBVIOUS
    <3>1. exported'[t] = exported[t] /\ expected'[t] = expected[t]
      BY <1>5, <1>6, Zenon
    <3>2. /\ Len(exported[t]) = expected[t]
          /\ \A i \in 1..Len(exported[t]) : exported[t][i].seqno = i - 1
      BY <1>0, Zenon DEF InOrderExport
    <3> QED BY <3>1, <3>2, Zenon
  <2> QED BY <1>5, <2>1, <2>2 DEF InOrderExport
<1> QED BY <1>9, <1>10, <1>11, <1>12 DEF ReordererInv

(* enqueue_result keeps the invariant, with and without memory for what it  *)
(* appends.                                                                 *)
LEMMA EnqueueExpected ==
  ASSUME ReordererInv, enqueue_result \/ enqueue_result_no_memory
  PROVE  ReordererInv'
<1> DEFINE res == Head(incoming)
           s == res.stream
<1>1. res \in Results /\ s \in Streams /\ res.seqno \in Nat
  BY HandleNextType DEF ReordererInv, enqueue_result, enqueue_result_no_memory, Results
<1>2. CASE enqueue_result
  <2>1. PICK end \in (res.seqno + 1)..MaxSeq :
          /\ Ready(pending[s], res, end)
          /\ expected' = [expected EXCEPT ![s] = end]
          /\ pending' = [pending EXCEPT ![s] = Without(pending[s], res.seqno, end - 1)]
          /\ exported' = [exported EXCEPT ![s] = @ \o Appended(pending[s], res, end)]
    BY <1>2 DEF enqueue_result
  <2>2. HandleNext /\ res.seqno = expected[s] /\ UNCHANGED <<fwdhalted, lost>>
    BY <1>2 DEF enqueue_result
  <2>3. end \in Nat /\ end - 1 \in Nat /\ end >= res.seqno /\ (end - 1) + 1 = end
    BY <1>1, ConstantsAssumption
  <2>4. lost' \subseteq Streams \X Nat /\ fwdhalted' \in BOOLEAN
    BY <2>2 DEF ReordererInv, TypeOK
  <2>5. /\ \A n \in (res.seqno + 1)..(end - 1) : n \in DOMAIN pending[s]
        /\ end \notin DOMAIN pending[s]
    BY <2>1 DEF Ready
  <2>6. DrainsRun(res, s, end, end - 1)
    BY <2>1, <2>2, <2>3, <2>4, <2>5 DEF DrainsRun
  <2> QED BY <2>2, <2>6, ExportRun, Zenon
<1>3. CASE enqueue_result_no_memory
  <2>1. PICK stop \in res.seqno..(MaxSeq - 1) :
          /\ \A n \in (res.seqno + 1)..stop : n \in DOMAIN pending[s]
          /\ expected' = [expected EXCEPT ![s] = stop]
          /\ pending' = [pending EXCEPT ![s] = Without(pending[s], res.seqno, stop)]
          /\ exported' = [exported EXCEPT ![s] = @ \o Appended(pending[s], res, stop)]
          /\ lost' = lost \cup {<<s, stop>>}
          /\ fwdhalted' = (stop # res.seqno)
    BY <1>3 DEF enqueue_result_no_memory
  <2>2. HandleNext /\ res.seqno = expected[s]
    BY <1>3 DEF enqueue_result_no_memory
  <2>3. stop \in Nat /\ stop >= res.seqno
    BY <1>1, ConstantsAssumption
  <2>4. lost' \subseteq Streams \X Nat /\ fwdhalted' \in BOOLEAN
    <3>1. lost \subseteq Streams \X Nat
      BY DEF ReordererInv, TypeOK
    <3>2. <<s, stop>> \in Streams \X Nat
      BY <1>1, <2>3
    <3> QED BY <2>1, <3>1, <3>2
  <2>5. \A n \in (res.seqno + 1)..(stop - 1) : n \in DOMAIN pending[s]
    <3>1. \A n \in (res.seqno + 1)..(stop - 1) : n \in (res.seqno + 1)..stop
      BY <1>1, <2>3
    <3> QED BY <2>1, <3>1, Zenon
  <2>6. DrainsRun(res, s, stop, stop)
    BY <2>1, <2>2, <2>3, <2>4, <2>5 DEF DrainsRun
  <2> QED BY <2>2, <2>6, ExportRun, Zenon
<1> QED BY <1>2, <1>3

-----------------------------------------------------------------------------
(* No reorderer exists in the beginning.                                    *)
LEMMA ReordererInit == Init => ReordererInv
<1> SUFFICES ASSUME Init PROVE ReordererInv
  OBVIOUS
<1>1. TypeOK
  BY InitType
<1>2. \A s \in Streams : expected[s] = 0 /\ DOMAIN pending[s] = {} /\ exported[s] = <<>>
  BY NoPendingDomain, Zenon DEF Init
<1>3. PendingKeyed /\ NothingReadyHeld
  BY <1>2, Zenon DEF PendingKeyed, NothingReadyHeld
<1>4. InOrderExport
  BY <1>2 DEF InOrderExport
<1> QED BY <1>1, <1>3, <1>4 DEF ReordererInv

(* Every step of every thread preserves the invariant of the reorderers.    *)
LEMMA ReordererStep == ReordererInv /\ [Next]_vars => ReordererInv'
<1> SUFFICES ASSUME ReordererInv, [Next]_vars PROVE ReordererInv'
  OBVIOUS
<1>0. TypeOK /\ PendingKeyed /\ InOrderExport /\ NothingReadyHeld
  BY DEF ReordererInv
<1>1. ASSUME TypeOK', UNCHANGED fwdvars PROVE ReordererInv'
  BY <1>0, <1>1 DEF ReordererInv, PendingKeyed, InOrderExport, NothingReadyHeld, fwdvars
<1>2. ASSUME NEW l \in Liids, NEW d \in Details, insert_new_intercept(l, d) PROVE ReordererInv'
  <2>1. TypeOK'
    BY <1>0, <1>2, InsertType
  <2> QED BY <1>1, <1>2, <2>1 DEF insert_new_intercept
<1>3. ASSUME NEW l \in Liids, NEW d \in Details, update_modified_intercept(l, d) PROVE ReordererInv'
  <2>1. TypeOK'
    BY <1>0, <1>3, ModifyType
  <2> QED BY <1>1, <1>3, <2>1 DEF update_modified_intercept
<1>4. ASSUME NEW l \in Liids, remove_intercept(l) PROVE ReordererInv'
  <2>1. TypeOK'
    BY <1>0, <1>4, RemoveType
  <2> QED BY <1>1, <1>4, <2>1 DEF remove_intercept
<1>5. ASSUME NEW i \in Idents, sync_thread_publish_reload(i) PROVE ReordererInv'
  <2>1. TypeOK'
    BY <1>0, <1>5, ReloadType
  <2> QED BY <1>1, <1>5, <2>1 DEF sync_thread_publish_reload
<1>6. CASE SeqtrackerControl
  <2>1. TypeOK'
    BY <1>0, <1>6, TrackerType
  <2>2. UNCHANGED fwdvars
    BY <1>6 DEF SeqtrackerControl, track_new_intercept, modify_tracked_intercept,
                remove_tracked_intercept, reconfigure_intercepts, TrackerLeaves
  <2> QED BY <1>1, <2>1, <2>2
<1>7. ASSUME NEW s \in Streams, NEW d \in Details, NEW w \in Workers, run_encoding_job(s, d, w)
      PROVE  ReordererInv'
  <2>1. TypeOK'
    BY <1>0, <1>7, JobType
  <2> QED BY <1>1, <1>7, <2>1 DEF run_encoding_job
<1>8. ASSUME NEW w \in Workers, Encoder(w) \/ encode_etsi_error(w) PROVE ReordererInv'
  <2>1. TypeOK'
    BY <1>0, <1>8, EncoderType
  <2> QED BY <1>1, <1>8, <2>1 DEF Encoder, encode_etsi, encode_etsi_error, push_results
<1>9. ASSUME NEW w \in Workers, receive_incoming_etsi(w) \/ drain_incoming_etsi(w) PROVE ReordererInv'
  BY <1>0, <1>1, <1>9, ReceiveType
<1>10. CASE remove_reorderers
  BY <1>10, RemoveReorderers
<1>11. CASE enqueue_result_early
  BY <1>11, EnqueueEarly
<1>12. CASE enqueue_result \/ enqueue_result_no_memory
  BY <1>12, EnqueueExpected
<1>13. CASE UNCHANGED vars
  <2>1. TypeOK'
    BY <1>0, <1>13 DEF TypeOK, vars, syncvars, seqvars, encvars, fwdvars, queues
  <2> QED BY <1>1, <1>13, <2>1 DEF vars
<1> QED BY <1>2, <1>3, <1>4, <1>5, <1>6, <1>7, <1>8, <1>9, <1>10, <1>11, <1>12, <1>13
        DEF Next, Forwarder

(* In every state every result waits under its own number, what is exported *)
(* of a stream is in sequence, and nothing whose turn has come is held      *)
(* (enqueue_result and remove_reorderers).                                  *)
THEOREM Reordering == Spec => []ReordererInv
  BY ReordererInit, ReordererStep, PTL DEF Spec

(* The state of every thread and queue of the export path keeps its type,   *)
(* whatever the order of events.                                            *)
THEOREM TypeCorrect == Spec => []TypeOK
<1>1. ReordererInv => TypeOK
  BY DEF ReordererInv
<1> QED BY <1>1, Reordering, PTL

(* The forwarding thread appends the records of every LIID/CIN in the order *)
(* of their sequence numbers, without gaps and without repetitions, for any *)
(* number of workers and any history of announcements, errors and           *)
(* withdrawals (enqueue_result).                                            *)
THEOREM ExportInOrder == Spec => []InOrderExport
<1>1. ReordererInv => InOrderExport
  BY DEF ReordererInv
<1> QED BY <1>1, Reordering, PTL

(* No record waits in a reorderer once all before it have been appended     *)
(* (the while loop of enqueue_result).                                      *)
THEOREM ReadyIsExported == Spec => []NothingReadyHeld
<1>1. ReordererInv => NothingReadyHeld
  BY DEF ReordererInv
<1> QED BY <1>1, Reordering, PTL
=============================================================================
