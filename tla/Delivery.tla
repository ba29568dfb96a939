------------------------------ MODULE Delivery ------------------------------
(***************************************************************************)
(* Delivery requests of one asset: a client creates a request, downloads   *)
(* its content, possibly many times, and acknowledges what it received.    *)
(*                                                                         *)
(* Each call is a transaction that reads the delivery row, works on its    *)
(* copy and writes the whole row back when the copy has changed: the row   *)
(* has no version and the update names every column, so of two overlapping *)
(* calls the last to commit wins.                                          *)
(***************************************************************************)
EXTENDS Naturals, FiniteSets

CONSTANTS
    Deliveries,     \* delivery requests, created at most once each
    Calls,          \* content and acknowledgement calls, made once each
    Legacy,         \* TRUE: the asset was stored before checksums were kept
    HasThumbnail    \* FALSE: a video, or a photo not yet processed

ASSUME DeliveryAssumption ==
    /\ Legacy \in BOOLEAN
    /\ HasThumbnail \in BOOLEAN
    /\ IsFiniteSet(Calls)

VARIABLES
    stored,     \* the asset row and the files of its variants exist
    files,      \* variants whose file is in the object storage
    delivery,   \* rows of media_delivery_requests
    call,       \* transactions in flight and the row each has read
    served,     \* history: content responses sent for each delivery
    confirmed,  \* history: deliveries whose client got the answer DELIVERED
    overlapped  \* history: deliveries on which two calls have overlapped

vars == <<stored, files, delivery, call, served, confirmed, overlapped>>

-----------------------------------------------------------------------------
Variants == {"ORIGINAL", "THUMBNAIL"}

\* SHA-256 of the two files, and of anything else.
Checksums == {"sha-original", "sha-thumbnail", "sha-other"}

ChecksumOf == [ORIGINAL |-> "sha-original", THUMBNAIL |-> "sha-thumbnail"]

\* checksum_sha256 is copied from the asset, which keeps that of its original.
Expected == IF Legacy THEN "NULL" ELSE "sha-original"

Rows == [status: {"NONE", "QUEUED", "AVAILABLE", "DELIVERED", "FAILED"},
         variant: Variants,
         attempts: 0 .. Cardinality(Calls),
         acknowledged: Checksums \cup {"NULL"},
         error: {"NULL", "checksum-mismatch"}]

NoRow == [status |-> "NONE", variant |-> "ORIGINAL", attempts |-> 0,
          acknowledged |-> "NULL", error |-> "NULL"]

Idle == [pc |-> "idle"]
Done == [pc |-> "done"]

Transactions == [pc: {"content", "ack"}, on: Deliveries, read: Rows, write: Rows,
                 checksum: Checksums]

\* Types: among them, that no more attempts are counted than calls were made.
\* (deliveryContent)
TypeOK ==
    /\ stored \in BOOLEAN
    /\ files \subseteq Variants
    /\ delivery \in [Deliveries -> Rows]
    /\ call \in [Calls -> {Idle, Done} \cup Transactions]
    /\ served \in [Deliveries -> Nat]
    /\ confirmed \subseteq Deliveries
    /\ overlapped \subseteq Deliveries

VariantsOfAsset == IF HasThumbnail THEN Variants ELSE {"ORIGINAL"}

Init ==
    /\ stored = TRUE
    /\ files = VariantsOfAsset
    /\ delivery = [d \in Deliveries |-> NoRow]
    /\ call = [c \in Calls |-> Idle]
    /\ served = [d \in Deliveries |-> 0]
    /\ confirmed = {}
    /\ overlapped = {}

-----------------------------------------------------------------------------
\* POST /api/media/{id}/deliveries: QUEUED at the insert, AVAILABLE at commit.
Create(d, v) ==
    /\ stored
    /\ delivery[d] = NoRow
    /\ v \in VariantsOfAsset
    /\ delivery' = [delivery EXCEPT ![d] = [NoRow EXCEPT !.status = "AVAILABLE",
                                                         !.variant = v]]
    /\ UNCHANGED <<stored, files, call, served, confirmed, overlapped>>

InFlight(c) == call[c].pc \in {"content", "ack"}

\* A call has read its row and computed the row it will write.
Reads(c, pc, d, write, checksum) ==
    /\ call[c] = Idle
    /\ delivery[d].status # "NONE"
    /\ call' = [call EXCEPT ![c] = [pc |-> pc, on |-> d, read |-> delivery[d],
                                    write |-> write, checksum |-> checksum]]
    /\ overlapped' = IF \E o \in Calls : InFlight(o) /\ call[o].on = d
                     THEN overlapped \cup {d} ELSE overlapped
    /\ UNCHANGED <<stored, files, delivery, served, confirmed>>

\* Mutants: an attempt too few, an attempt too many.
ServedRowUncounted(row) == [row EXCEPT !.status = "AVAILABLE"]

ServedRowTwice(row) == [row EXCEPT !.attempts = @ + 2, !.status = "AVAILABLE"]

\* GET /api/media/deliveries/{id}/content counts the attempt and makes the
\* request AVAILABLE, whatever it was before.
ServedRow(row) == [row EXCEPT !.attempts = @ + 1, !.status = "AVAILABLE"]

\* Mutant: the checksum is not compared.
AcceptsAnything(checksum) == TRUE

Accepts(checksum) == Expected = "NULL" \/ checksum = Expected

AcceptedRow(row, checksum) ==
    [row EXCEPT !.acknowledged = checksum, !.status = "DELIVERED", !.error = "NULL"]

RefusedRow(row) == [row EXCEPT !.status = "FAILED", !.error = "checksum-mismatch"]

\* POST /api/media/deliveries/{id}/ack.
AcknowledgedRow(row, checksum) ==
    IF Accepts(checksum) THEN AcceptedRow(row, checksum) ELSE RefusedRow(row)

\* Every call is made once: the guard bounds nothing but the type of attempts.
ContentReads(c, d) ==
    /\ delivery[d].attempts < Cardinality(Calls)
    /\ Reads(c, "content", d, ServedRow(delivery[d]), "sha-other")

AckReads(c, d, checksum) ==
    Reads(c, "ack", d, AcknowledgedRow(delivery[d], checksum), checksum)

\* An accepted acknowledgement sets the time of delivery, so it changes the row
\* even when nothing else does; refusing a refused one again changes nothing.
Changed(t) == t.write.status = "DELIVERED" \/ t.write # t.read

\* Only a changed row is written, and a row deleted meanwhile is an error.
Commits(c) ==
    LET t == call[c] IN
    /\ Changed(t) => stored
    /\ delivery' = IF Changed(t) THEN [delivery EXCEPT ![t.on] = t.write] ELSE delivery

Ends(c) ==
    /\ call' = [call EXCEPT ![c] = Done]
    /\ UNCHANGED <<stored, files, overlapped>>

ContentCommits(c) ==
    /\ call[c].pc = "content"
    /\ call[c].read.variant \in files
    /\ Commits(c)
    /\ Ends(c)
    /\ served' = [served EXCEPT ![call[c].on] = @ + 1]
    /\ UNCHANGED confirmed

AckCommits(c) ==
    /\ call[c].pc = "ack"
    /\ Commits(c)
    /\ Ends(c)
    /\ confirmed' = IF call[c].write.status = "DELIVERED"
                    THEN confirmed \cup {call[c].on} ELSE confirmed
    /\ UNCHANGED served

\* The storage fails, the row is gone, the connection is lost.
CallFails(c) ==
    /\ InFlight(c)
    /\ Ends(c)
    /\ UNCHANGED <<delivery, served, confirmed>>

\* DELETE /api/media/{id} removes the files, then the rows (MediaLifecycle).
FileRemoved(v) ==
    /\ v \in files
    /\ files' = files \ {v}
    /\ UNCHANGED <<stored, delivery, call, served, confirmed, overlapped>>

AssetDeleted ==
    /\ stored
    /\ files = {}
    /\ stored' = FALSE
    /\ delivery' = [d \in Deliveries |-> NoRow]
    /\ UNCHANGED <<files, call, served, confirmed, overlapped>>

Quiet ==
    /\ \A c \in Calls : ~InFlight(c)
    /\ UNCHANGED vars

Next ==
    \/ \E d \in Deliveries, v \in Variants : Create(d, v)
    \/ \E c \in Calls, d \in Deliveries : ContentReads(c, d)
    \/ \E c \in Calls, d \in Deliveries, s \in Checksums : AckReads(c, d, s)
    \/ \E c \in Calls : ContentCommits(c) \/ AckCommits(c) \/ CallFails(c)
    \/ \E v \in Variants : FileRemoved(v)
    \/ AssetDeleted
    \/ Quiet

Spec == Init /\ [][Next]_vars

-----------------------------------------------------------------------------
(* Safety.                                                                 *)

Whole(row) ==
    /\ row.status = "DELIVERED" => row.acknowledged # "NULL" /\ row.error = "NULL"
    /\ row.status = "FAILED" => row.error # "NULL"
    /\ row.acknowledged # "NULL" => Legacy \/ row.acknowledged = Expected

\* However calls overlap, the columns of a row belong together: DELIVERED comes
\* with the acknowledged checksum the request expected and no error, FAILED with
\* its reason.  (acknowledgeDelivery)
RowsAreWhole == \A d \in Deliveries : Whole(delivery[d])

\* The attempts of a row never exceed the downloads that were answered: a
\* download that fails, in the storage or in the database, is rolled back.
\* (deliveryContent)
AttemptsWereServed ==
    \A d \in Deliveries : delivery[d].attempts <= served[d]

\* Without overlapping calls nothing is lost: every download is counted, and a
\* confirmed acknowledgement stays in the row.  With them both can be lost.
\* (deliveryContent, acknowledgeDelivery: read, modify, write the whole row)
NothingLostAlone ==
    \A d \in Deliveries \ overlapped : delivery[d].status # "NONE" =>
        /\ delivery[d].attempts = served[d]
        /\ d \in confirmed => delivery[d].acknowledged # "NULL"

-----------------------------------------------------------------------------
(* Why they hold: with this part the invariant is inductive.               *)

\* What a call in flight will write is whole, and counts at most the download
\* it is about to answer.
WritesAreSound ==
    \A c \in Calls : InFlight(c) =>
        LET t == call[c] IN
        /\ Whole(t.write)
        /\ t.write.attempts <= served[t.on] + IF t.pc = "content" THEN 1 ELSE 0

IInv ==
    /\ TypeOK
    /\ RowsAreWhole
    /\ AttemptsWereServed
    /\ WritesAreSound

-----------------------------------------------------------------------------
(* What the documents say and the code does not do.                        *)

\* docs/architecture.md:60: a client requests "original or thumbnail content"
\* and acknowledges receipt "with checksum verification".  A client that hashes
\* the file it was sent is never refused.
HonestAckIsAccepted ==
    \A c \in Calls :
        call[c].pc = "ack" /\ call[c].checksum = ChecksumOf[call[c].read.variant]
            => call[c].write.status = "DELIVERED"
=============================================================================
