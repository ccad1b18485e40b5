---------------------------- MODULE ExportBuffer ----------------------------
(***************************************************************************)
(* The byte buffer between a thread that produces records and the          *)
(* connection that carries them away (export_buffer.c).  The forwarding    *)
(* thread of a collector keeps one for each mediator, a mediator keeps one *)
(* for each handover and one for each intercept written to a pcap file;    *)
(* who owns the buffer is chosen in the beginning.                         *)
(* Bytes are numbered in the order in which they were appended; bufbase is *)
(* the number of the byte at bufhead, so that what the code keeps as       *)
(* pointers is a difference of numbers here and no contents are needed.    *)
(***************************************************************************)
EXTENDS Integers, FiniteSets, FiniteSetsExt

CONSTANTS
    RecordSizes,   \* lengths of records
    AllocSize,     \* BUFFER_ALLOC_SIZE
    ShrinkFactor,  \* a buffer of more than so many AllocSize may shrink
    Frequency,     \* BUF_OFFSET_FREQUENCY
    TLS,           \* the connection is encrypted
    ByteLimit,     \* the bytelimit the owner passes to the transmit functions
    None,          \* no byte has been sent on this connection
    MaxBytes       \* bound: bytes ever appended

Owners == {"collector", "collector_rmq", "handover", "pcap"}

(* The largest distance between two saved offsets is that of a record or of *)
(* Frequency; the batch limits (16 MB, 100 MB) are far above twice that.    *)
ASSUME BufferAssumption ==
    /\ TLS \in BOOLEAN
    /\ RecordSizes \subseteq Nat \ {0}
    /\ AllocSize \in Nat /\ ShrinkFactor \in Nat /\ Frequency \in Nat \ {0}
    /\ \A n \in RecordSizes : n <= AllocSize /\ ByteLimit >= 2 * n
    /\ ByteLimit \in Nat /\ ByteLimit >= 2 * Frequency
    /\ None \notin Nat
    /\ MaxBytes \in Nat

VARIABLES
    owner,          \* who uses the buffer, see Owners
    bufbase,        \* number of the byte at bufhead
    used,           \* buftail - bufhead
    alloced,
    deadfront,
    partialfront,
    partialrem,
    record_offsets, \* saved offsets of records, from bufhead
    since,          \* since_last_saved_offset
    starts,         \* history: the bytes that begin a record
    connected,      \* the owner has a connection to send on
    first,          \* history: first byte sent on this connection
    next,           \* history: one past the last byte sent on this connection
    sentupto        \* history: every byte before this one was sent once

memory == <<bufbase, used, alloced, deadfront, record_offsets>>
vars   == <<owner, memory, partialfront, partialrem, since, starts, connected, first, next, sentupto>>

Init ==
    /\ owner \in Owners
    /\ bufbase = 0 /\ used = 0 /\ alloced = 0 /\ deadfront = 0
    /\ partialfront = 0 /\ partialrem = 0
    /\ record_offsets = {} /\ since = 0
    /\ starts = {}
    /\ connected = FALSE
    /\ first = None /\ next = None
    /\ sentupto = 0

get_buffered_amount == used - deadfront

(* Variant: every saved offset is moved, the passed ones below zero.        *)
NegativeOffsets(offsets, dead, rem) == {o - dead : o \in offsets}

(* What is left of the saved offsets when the bytes before dead are thrown  *)
(* away, rem bytes remaining.                                               *)
slide_buffer(offsets, dead, rem) ==
    IF rem = 0 THEN {} ELSE {o - dead : o \in {x \in offsets : x >= dead}}

-----------------------------------------------------------------------------
(* Appending a record.  The offset that is saved for it, used, was computed *)
(* before the buffer was extended.                                          *)

(* Variant: the offset of the record is not saved.                          *)
AppendUnsaved(len) ==
    /\ alloced - used >= len
    /\ UNCHANGED <<bufbase, alloced, deadfront, record_offsets>>
    /\ used' = used + len

AppendInPlace(len) ==
    /\ alloced - used >= len
    /\ UNCHANGED <<bufbase, alloced, deadfront>>
    /\ used' = used + len
    /\ record_offsets' = record_offsets \cup (IF since + len >= Frequency THEN {used} ELSE {})

(* extend_buffer: dead bytes are squeezed out first.                        *)
AppendExtended(len) ==
    /\ alloced - used < len
    /\ bufbase' = bufbase + deadfront
    /\ alloced' = alloced + AllocSize
    /\ deadfront' = 0
    /\ used' = get_buffered_amount + len
    /\ record_offsets' =
           (IF deadfront > 0 THEN slide_buffer(record_offsets, deadfront, get_buffered_amount) ELSE record_offsets)
           \cup (IF since + len >= Frequency THEN {used} ELSE {})

(* Variant: the partial send is forgotten whenever a record is appended.    *)
AppendForgetsPartial(len) ==
    /\ bufbase + used + len <= MaxBytes
    /\ AppendInPlace(len) \/ AppendExtended(len)
    /\ partialfront' = 0
    /\ since' = (IF since + len >= Frequency THEN 0 ELSE since) + len
    /\ starts' = starts \cup {bufbase + used}
    /\ UNCHANGED <<owner, partialrem, connected, first, next, sentupto>>

append_to_buffer(len) ==
    /\ bufbase + used + len <= MaxBytes
    /\ AppendInPlace(len) \/ AppendExtended(len)
    /\ partialfront' = IF used = 0 THEN 0 ELSE partialfront
    /\ since' = (IF since + len >= Frequency THEN 0 ELSE since) + len
    /\ starts' = starts \cup {bufbase + used}
    /\ UNCHANGED <<owner, partialrem, connected, first, next, sentupto>>

-----------------------------------------------------------------------------
(* Sending.                                                                 *)

(* Variant: the rest of the batch is not remembered.                        *)
BatchAnew ==
    IF get_buffered_amount <= ByteLimit THEN get_buffered_amount
    ELSE Max({o \in record_offsets : o <= deadfront + ByteLimit}) - deadfront

(* The size of the next batch: the rest of the last one, else everything,   *)
(* cut at the last saved offset within the limit.                           *)
BatchSize ==
    IF partialrem > 0 THEN partialrem
    ELSE IF get_buffered_amount - partialfront <= ByteLimit THEN get_buffered_amount - partialfront
    ELSE Max({o \in record_offsets : o <= deadfront + ByteLimit}) - deadfront

(* Variant: the buffer is squeezed and deadfront not reset.                 *)
StaleDeadfront(gone) ==
    LET dead == deadfront + gone IN
    /\ IF 4 * dead >= alloced
       THEN /\ bufbase' = bufbase + dead
            /\ used' = used - dead
            /\ record_offsets' = slide_buffer(record_offsets, dead, used - dead)
       ELSE UNCHANGED <<bufbase, used, record_offsets>>
    /\ deadfront' = dead
    /\ partialfront' = 0 /\ partialrem' = 0
    /\ UNCHANGED alloced

(* post_transmit, once gone bytes of the front have been taken: shrink the  *)
(* buffer, or squeeze the dead bytes out, or leave them for later.          *)
post_transmit(gone) ==
    LET dead == deadfront + gone
        rem == used - dead
        shrink == rem < alloced \div 2 /\ alloced > ShrinkFactor * AllocSize
        squeeze == 4 * (alloced - used) < alloced /\ 4 * dead >= alloced
    IN
    /\ IF shrink \/ squeeze
       THEN /\ bufbase' = bufbase + dead
            /\ used' = rem
            /\ deadfront' = 0
            /\ record_offsets' = slide_buffer(record_offsets, dead, rem)
            /\ alloced' = IF shrink THEN (rem \div AllocSize + 1) * AllocSize ELSE alloced
       ELSE /\ deadfront' = dead
            /\ UNCHANGED <<bufbase, used, record_offsets, alloced>>
    /\ partialfront' = 0
    /\ partialrem' = 0

(* n bytes from number p go out.                                            *)
Sent(p, n) ==
    /\ first' = IF first = None /\ n > 0 THEN p ELSE first
    /\ next' = IF n > 0 THEN p + n ELSE next
    /\ sentupto' = IF p <= sentupto /\ p + n > sentupto THEN p + n ELSE sentupto

Socket == owner \in {"collector", "handover"}
SendFrom == bufbase + deadfront + partialfront

transmit_all ==
    /\ Socket /\ connected
    /\ get_buffered_amount > 0
    /\ Sent(SendFrom, BatchSize)
    /\ post_transmit(BatchSize + partialfront)
    /\ UNCHANGED <<owner, since, starts, connected>>

(* The socket takes only n bytes of the batch; none at all is EAGAIN.       *)
(* SSL_write is called until it has taken the whole batch.                  *)
transmit_partly(n) ==
    /\ Socket /\ connected /\ ~TLS
    /\ get_buffered_amount > 0
    /\ n < BatchSize
    /\ Sent(SendFrom, n)
    /\ partialfront' = partialfront + n
    /\ partialrem' = BatchSize - n
    /\ UNCHANGED <<owner, memory, since, starts, connected>>

(* The same through RabbitMQ: a message of at most ByteLimit bytes, which   *)
(* stays in the buffer if it cannot be published.                           *)
transmit_RMQ(published) ==
    /\ owner = "collector_rmq" /\ connected
    /\ get_buffered_amount > 0
    /\ LET sent == IF get_buffered_amount > ByteLimit THEN ByteLimit ELSE get_buffered_amount
           n == IF published THEN sent ELSE 0
       IN /\ Sent(bufbase + deadfront, n)
          /\ post_transmit(n)
    /\ UNCHANGED <<owner, since, starts, connected>>

(* The pcap thread takes the records at the head one by one.                *)
advance_export_buffer_head ==
    /\ owner = "pcap"
    /\ get_buffered_amount > 0
    /\ LET p == bufbase + deadfront
           amount == Min({s \in starts : s > p} \cup {bufbase + used}) - p
       IN /\ Sent(p, amount)
          /\ post_transmit(amount)
    /\ UNCHANGED <<owner, since, starts, connected>>

-----------------------------------------------------------------------------
(* The connection.                                                          *)

(* connect_single_target forgets how far the last batch got, but not how    *)
(* long it was.                                                             *)
connect ==
    /\ owner # "pcap" /\ ~connected
    /\ connected' = TRUE
    /\ partialfront' = IF owner = "collector" THEN 0 ELSE partialfront
    /\ UNCHANGED <<owner, memory, partialrem, since, starts, first, next, sentupto>>

(* disconnect_handover resets the buffer (reset_export_buffer),             *)
(* disconnect_mediator does not.                                            *)
Drop(rem) ==
    /\ connected
    /\ connected' = FALSE
    /\ first' = None /\ next' = None
    /\ partialfront' = IF owner = "handover" THEN 0 ELSE partialfront
    /\ partialrem' = IF owner = "handover" THEN 0 ELSE rem
    /\ UNCHANGED <<owner, memory, since, starts, sentupto>>

(* The owner drops the connection, or has lost it.                          *)
disconnect == Drop(partialrem)

(* The batch was chosen and the send fails: the owner disconnects.          *)
transmit_error ==
    /\ Socket
    /\ get_buffered_amount > 0
    /\ Drop(BatchSize)

Next ==
    \/ \E len \in RecordSizes : append_to_buffer(len)
    \/ transmit_all
    \/ \E n \in 0..MaxBytes : transmit_partly(n)
    \/ \E published \in BOOLEAN : transmit_RMQ(published)
    \/ advance_export_buffer_head
    \/ transmit_error
    \/ connect
    \/ disconnect

Spec == Init /\ [][Next]_vars

-----------------------------------------------------------------------------
(* Properties.                                                              *)

TypeOK ==
    /\ owner \in Owners
    /\ bufbase \in Nat /\ used \in Nat /\ alloced \in Nat /\ deadfront \in Nat
    /\ partialfront \in Nat /\ partialrem \in Nat /\ since \in Nat
    /\ record_offsets \subseteq Nat
    /\ starts \subseteq Nat
    /\ connected \in BOOLEAN
    /\ first \in Nat \cup {None} /\ next \in Nat \cup {None}
    /\ sentupto \in Nat

(* The buffer stays within its allocation, the dead bytes and the batch     *)
(* under way within the buffer (the assertions of post_transmit).           *)
WithinBuffer ==
    /\ used <= alloced
    /\ deadfront + partialfront + partialrem <= used

(* Through all the slides, extensions and partial sends, what a connection  *)
(* carries is a contiguous run of the appended bytes: the next byte to be   *)
(* sent is the one after the last one sent.                                 *)
ContiguousStream == first # None => SendFrom = next

(* No byte leaves the buffer before it was sent.                            *)
NothingSkipped == bufbase + deadfront <= sentupto

(* When there is more to send than the limit allows, there is a saved       *)
(* offset to cut the batch at, beyond the bytes already sent                *)
(* (transmit_buffered_records asserts that one is found).                   *)
BatchFound ==
    (partialrem = 0 /\ get_buffered_amount - partialfront > ByteLimit)
        => \E o \in record_offsets : deadfront < o /\ o <= deadfront + ByteLimit

(* The first byte a connection carries is the first byte of a record, so    *)
(* the receiver can make sense of the stream ("make sure we re-send the     *)
(* whole record").                                                          *)
StartsWithRecord == (Socket /\ first # None) => first \in starts
=============================================================================
