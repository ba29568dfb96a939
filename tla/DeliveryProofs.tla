--------------------------- MODULE DeliveryProofs ---------------------------
(***************************************************************************)
(* Theorems about Delivery, for any number of deliveries and calls: what   *)
(* overlapping calls can and cannot do to a delivery row.                  *)
(***************************************************************************)
EXTENDS Delivery, FiniteSetTheorems, TLAPS

\* The bound of the attempts is a number.
LEMMA CallsAreCounted == Cardinality(Calls) \in Nat
BY DeliveryAssumption, FS_CardinalityType

\* The invariant holds before the first delivery is created.
LEMMA InitIInv == Init => IInv
BY CallsAreCounted, DeliveryAssumption
   DEF Init, IInv, TypeOK, RowsAreWhole, AttemptsWereServed, WritesAreSound, Whole,
       InFlight, NoRow, Rows, Idle, Done, Transactions, Variants, Checksums,
       VariantsOfAsset

\* What the handlers compute from a whole row is a whole row.
LEMMA ServedRowIsWhole ==
    ASSUME NEW row \in Rows, Whole(row), row.attempts < Cardinality(Calls)
    PROVE  /\ ServedRow(row) \in Rows
           /\ Whole(ServedRow(row))
           /\ ServedRow(row).attempts = row.attempts + 1
<1>1. row.attempts + 1 \in 0 .. Cardinality(Calls)
      BY CallsAreCounted DEF Rows
<1>2. PICK n \in 0 .. Cardinality(Calls) : n = row.attempts + 1
      BY <1>1
<1>3. ServedRow(row) = [row EXCEPT !.attempts = n, !.status = "AVAILABLE"]
      BY <1>2, Zenon DEF ServedRow
<1>4. /\ ServedRow(row) \in Rows
      /\ Whole(ServedRow(row))
      /\ ServedRow(row).attempts = n
      BY <1>3 DEF Whole, Rows
<1> QED
    BY <1>2, <1>4

\* So is an acknowledgement, accepted or refused; it counts no attempt.
LEMMA AcknowledgedRowIsWhole ==
    ASSUME NEW row \in Rows, Whole(row), NEW checksum \in Checksums
    PROVE  /\ AcknowledgedRow(row, checksum) \in Rows
           /\ Whole(AcknowledgedRow(row, checksum))
           /\ AcknowledgedRow(row, checksum).attempts = row.attempts
<1>1. CASE Accepts(checksum)
      BY <1>1, DeliveryAssumption
      DEF AcknowledgedRow, AcceptedRow, Accepts, Expected, Whole, Rows, Checksums
<1>2. CASE ~Accepts(checksum)
      BY <1>2 DEF AcknowledgedRow, RefusedRow, Whole, Rows
<1> QED
    BY <1>1, <1>2

\* A call that begins keeps the invariant when the row it will write is sound.
LEMMA ReadsIInv ==
    ASSUME IInv, NEW c \in Calls, NEW d \in Deliveries, NEW pc \in {"content", "ack"},
           NEW write \in Rows, NEW checksum \in Checksums, Whole(write),
           write.attempts <= delivery[d].attempts + IF pc = "content" THEN 1 ELSE 0,
           Reads(c, pc, d, write, checksum)
    PROVE  IInv'
<1> DEFINE new == [pc |-> pc, on |-> d, read |-> delivery[d], write |-> write,
                   checksum |-> checksum]
<1> USE CallsAreCounted DEF IInv, TypeOK
<1>1. /\ \A x \in Calls : call'[x] = IF x = c THEN new ELSE call[x]
      /\ UNCHANGED <<stored, files, delivery, served, confirmed>>
      BY DEF Reads
<1>2. TypeOK'
  <2>1. new \in Transactions
        BY DEF Transactions
  <2>2. call' \in [Calls -> {Idle, Done} \cup Transactions]
        BY <2>1 DEF Reads
  <2> QED
      BY <1>1, <2>2 DEF Reads
<1>3. (RowsAreWhole /\ AttemptsWereServed)'
      BY <1>1 DEF RowsAreWhole, AttemptsWereServed, Whole, Expected
<1>4. WritesAreSound'
  <2> SUFFICES ASSUME NEW x \in Calls, InFlight(x)'
               PROVE  /\ Whole(call'[x].write)
                      /\ call'[x].write.attempts <= served[call'[x].on]
                             + IF call'[x].pc = "content" THEN 1 ELSE 0
      BY <1>1 DEF WritesAreSound, Whole, Expected
  <2>1. CASE x = c
    <3>1. delivery[d].attempts <= served[d]
          BY DEF AttemptsWereServed
    <3>2. delivery[d].attempts \in Nat /\ served[d] \in Nat /\ write.attempts \in Nat
          BY DEF Rows
    <3>3. write.attempts <= served[d] + IF pc = "content" THEN 1 ELSE 0
          BY <3>1, <3>2
    <3> QED
        BY <1>1, <2>1, <3>3
  <2>2. CASE x # c
        BY <1>1, <2>2 DEF WritesAreSound, InFlight
  <2> QED
      BY <2>1, <2>2
<1> QED
    BY <1>2, <1>3, <1>4

-----------------------------------------------------------------------------
\* A download reads a whole row and counts itself once.
LEMMA ContentReadsIInv ==
    ASSUME IInv, NEW c \in Calls, NEW d \in Deliveries, ContentReads(c, d)
    PROVE  IInv'
<1> DEFINE row == delivery[d]
<1>1. row \in Rows /\ Whole(row) /\ row.attempts < Cardinality(Calls)
      BY DEF IInv, TypeOK, RowsAreWhole, ContentReads
<1>2. /\ ServedRow(row) \in Rows
      /\ Whole(ServedRow(row))
      /\ ServedRow(row).attempts = row.attempts + 1
      BY <1>1, ServedRowIsWhole
<1>3. Reads(c, "content", d, ServedRow(row), "sha-other")
      BY DEF ContentReads
<1>4. ServedRow(row).attempts <= row.attempts + 1
      BY <1>1, <1>2, CallsAreCounted DEF Rows
<1> QED
    BY <1>2, <1>3, <1>4, ReadsIInv DEF Checksums

\* An acknowledgement reads a whole row and counts nothing.
LEMMA AckReadsIInv ==
    ASSUME IInv, NEW c \in Calls, NEW d \in Deliveries, NEW s \in Checksums,
           AckReads(c, d, s)
    PROVE  IInv'
<1> DEFINE row == delivery[d]
<1>1. row \in Rows /\ Whole(row)
      BY DEF IInv, TypeOK, RowsAreWhole
<1>2. /\ AcknowledgedRow(row, s) \in Rows
      /\ Whole(AcknowledgedRow(row, s))
      /\ AcknowledgedRow(row, s).attempts = row.attempts
      BY <1>1, AcknowledgedRowIsWhole
<1>3. Reads(c, "ack", d, AcknowledgedRow(row, s), s)
      BY DEF AckReads
<1>4. AcknowledgedRow(row, s).attempts <= row.attempts + 0
      BY <1>1, <1>2, CallsAreCounted DEF Rows
<1> QED
    BY <1>2, <1>3, <1>4, ReadsIInv

-----------------------------------------------------------------------------
\* A call that ends has written its row or left it alone, and k downloads have
\* been answered.
LEMMA EndsIInv ==
    ASSUME IInv, NEW c \in Calls, InFlight(c), Ends(c), NEW k \in 0 .. 1,
           call[c].pc = "content" /\ delivery' # delivery => k = 1,
           \/ delivery' = delivery
           \/ delivery' = [delivery EXCEPT ![call[c].on] = call[c].write],
           served' = [served EXCEPT ![call[c].on] = @ + k],
           confirmed' \subseteq Deliveries
    PROVE  IInv'
<1> DEFINE t == call[c]
<1>1. t \in Transactions
      BY DEF IInv, TypeOK, InFlight, Idle, Done
<1>2. /\ t.on \in Deliveries
      /\ t.write \in Rows
      /\ t.pc \in {"content", "ack"}
      BY <1>1 DEF Transactions
<1>3. /\ Whole(t.write)
      /\ t.write.attempts <= served[t.on] + IF t.pc = "content" THEN 1 ELSE 0
      BY DEF IInv, WritesAreSound
<1>4. \A d \in Deliveries : /\ served[d] \in Nat
                            /\ served'[d] = IF d = t.on THEN served[d] + k ELSE served[d]
      BY DEF IInv, TypeOK
<1>5. TypeOK'
  <2>1. delivery' \in [Deliveries -> Rows]
        BY <1>2 DEF IInv, TypeOK
  <2>2. served' \in [Deliveries -> Nat]
        BY <1>2 DEF IInv, TypeOK
  <2>3. call' \in [Calls -> {Idle, Done} \cup Transactions]
        BY DEF IInv, TypeOK, Ends
  <2> QED
      BY <2>1, <2>2, <2>3 DEF IInv, TypeOK, Ends
<1>6. RowsAreWhole'
      BY <1>2, <1>3 DEF IInv, TypeOK, RowsAreWhole, Whole, Expected
<1>7. AttemptsWereServed'
  <2> SUFFICES ASSUME NEW d \in Deliveries PROVE delivery'[d].attempts <= served'[d]
      BY DEF AttemptsWereServed
  <2>1. delivery[d].attempts <= served[d] /\ delivery[d].attempts \in Nat
        BY CallsAreCounted DEF IInv, TypeOK, AttemptsWereServed, Rows
  <2>2. CASE delivery'[d] = delivery[d]
        BY <1>4, <2>1, <2>2
  <2>3. CASE delivery'[d] # delivery[d]
    <3>1. d = t.on /\ delivery'[d] = t.write /\ delivery' # delivery
          BY <2>3 DEF IInv, TypeOK
    <3>2. t.write.attempts \in Nat
          BY <1>2, CallsAreCounted DEF Rows
    <3> QED
        BY <1>2, <1>3, <1>4, <3>1, <3>2
  <2> QED
      BY <2>2, <2>3
<1>8. WritesAreSound'
  <2> SUFFICES ASSUME NEW x \in Calls, InFlight(x)'
               PROVE  /\ Whole(call'[x].write)
                      /\ call'[x].write.attempts <= served'[call'[x].on]
                             + IF call'[x].pc = "content" THEN 1 ELSE 0
      BY DEF WritesAreSound, Whole, Expected
  <2>1. x # c /\ call'[x] = call[x] /\ InFlight(x)
        BY DEF IInv, TypeOK, Ends, InFlight, Done
  <2>2. call[x] \in Transactions
        BY <2>1 DEF IInv, TypeOK, InFlight, Idle, Done
  <2>3. call[x].on \in Deliveries /\ call[x].write.attempts \in Nat
        BY <2>2, CallsAreCounted DEF Transactions, Rows
  <2>4. /\ Whole(call[x].write)
        /\ call[x].write.attempts <= served[call[x].on]
               + IF call[x].pc = "content" THEN 1 ELSE 0
        BY <2>1 DEF IInv, WritesAreSound
  <2> QED
      BY <1>4, <2>1, <2>3, <2>4
<1> QED
    BY <1>5, <1>6, <1>7, <1>8 DEF IInv

\* The row a call in flight works on is one of the deliveries.
LEMMA CallsKnowTheirRow ==
    ASSUME IInv, NEW c \in Calls, InFlight(c)
    PROVE  call[c].on \in Deliveries
BY DEF IInv, TypeOK, InFlight, Idle, Done, Transactions

\* Every way a call can end.
LEMMA CallEndsIInv ==
    ASSUME IInv, NEW c \in Calls, ContentCommits(c) \/ AckCommits(c) \/ CallFails(c)
    PROVE  IInv'
<1>1. InFlight(c) /\ call[c].on \in Deliveries
      BY CallsKnowTheirRow DEF ContentCommits, AckCommits, CallFails, InFlight
<1>2. served = [served EXCEPT ![call[c].on] = @ + 0]
      BY <1>1 DEF IInv, TypeOK
<1>3. ASSUME Commits(c)
      PROVE  \/ delivery' = delivery
             \/ delivery' = [delivery EXCEPT ![call[c].on] = call[c].write]
      BY <1>3 DEF Commits
<1>4. confirmed \subseteq Deliveries
      BY DEF IInv, TypeOK
<1>5. CASE ContentCommits(c)
  <2>1. Commits(c) /\ Ends(c) /\ UNCHANGED confirmed
        BY <1>5 DEF ContentCommits
  <2>2. served' = [served EXCEPT ![call[c].on] = @ + 1]
        BY <1>5 DEF ContentCommits
  <2>3. \/ delivery' = delivery
        \/ delivery' = [delivery EXCEPT ![call[c].on] = call[c].write]
        BY <1>3, <2>1
  <2>4. confirmed' \subseteq Deliveries /\ 1 \in 0 .. 1
        BY <1>4, <2>1
  <2> QED
      BY <1>1, <2>1, <2>2, <2>3, <2>4, EndsIInv
<1>6. CASE AckCommits(c)
  <2>1. Commits(c) /\ Ends(c) /\ UNCHANGED served
        BY <1>6 DEF AckCommits
  <2>2. confirmed' \subseteq Deliveries /\ call[c].pc # "content"
        BY <1>1, <1>4, <1>6 DEF AckCommits
  <2> QED
      BY <1>1, <1>2, <1>3, <2>1, <2>2, EndsIInv
<1>7. CASE CallFails(c)
  <2>1. Ends(c) /\ UNCHANGED <<delivery, served, confirmed>>
        BY <1>7 DEF CallFails
  <2> QED
      BY <1>1, <1>2, <1>4, <2>1, EndsIInv
<1> QED
    BY <1>5, <1>6, <1>7

-----------------------------------------------------------------------------
\* Every action keeps the invariant.
LEMMA NextIInv == IInv /\ [Next]_vars => IInv'
<1> SUFFICES ASSUME IInv, [Next]_vars PROVE IInv'
    OBVIOUS
<1> USE CallsAreCounted
<1>1. ASSUME NEW d \in Deliveries, NEW v \in Variants, Create(d, v) PROVE IInv'
  <2>1. [NoRow EXCEPT !.status = "AVAILABLE", !.variant = v] \in Rows
    <3>1. NoRow \in Rows
          BY DEF NoRow, Rows, Variants
    <3> QED
        BY <3>1 DEF Rows
  <2>2. TypeOK'
        BY <1>1, <2>1 DEF Create, IInv, TypeOK
  <2>3. (RowsAreWhole /\ AttemptsWereServed)'
        BY <1>1 DEF Create, NoRow, IInv, TypeOK, RowsAreWhole, AttemptsWereServed,
                    Whole, Expected
  <2>4. WritesAreSound'
        BY <1>1 DEF Create, IInv, WritesAreSound, InFlight, Whole, Expected
  <2> QED
      BY <2>2, <2>3, <2>4 DEF IInv
<1>2. ASSUME NEW c \in Calls, NEW d \in Deliveries, ContentReads(c, d) PROVE IInv'
      BY <1>2, ContentReadsIInv
<1>3. ASSUME NEW c \in Calls, NEW d \in Deliveries, NEW s \in Checksums, AckReads(c, d, s)
      PROVE  IInv'
      BY <1>3, AckReadsIInv
<1>4. ASSUME NEW c \in Calls, ContentCommits(c) \/ AckCommits(c) \/ CallFails(c)
      PROVE  IInv'
      BY <1>4, CallEndsIInv
<1>5. ASSUME NEW v \in Variants, FileRemoved(v) PROVE IInv'
      BY <1>5 DEF FileRemoved, IInv, TypeOK, RowsAreWhole, AttemptsWereServed,
                  WritesAreSound, InFlight, Whole, Expected
<1>6. CASE AssetDeleted
  <2>1. NoRow \in Rows
        BY DEF NoRow, Rows, Variants
  <2>2. TypeOK'
        BY <1>6, <2>1 DEF AssetDeleted, IInv, TypeOK
  <2>3. (RowsAreWhole /\ AttemptsWereServed)'
        BY <1>6 DEF AssetDeleted, NoRow, IInv, TypeOK, RowsAreWhole, AttemptsWereServed,
                    Whole, Expected
  <2>4. WritesAreSound'
        BY <1>6 DEF AssetDeleted, IInv, WritesAreSound, InFlight, Whole, Expected
  <2> QED
      BY <2>2, <2>3, <2>4 DEF IInv
<1>7. CASE Quiet \/ UNCHANGED vars
      BY <1>7 DEF Quiet, vars, IInv, TypeOK, RowsAreWhole, AttemptsWereServed,
                  WritesAreSound, InFlight, Whole, Expected
<1> QED
    BY <1>1, <1>2, <1>3, <1>4, <1>5, <1>6, <1>7 DEF Next

\* The invariant holds in every reachable state.
THEOREM Invariance == Spec => []IInv
BY InitIInv, NextIInv, PTL DEF Spec

\* Types are kept: no more attempts are counted than calls were made.
THEOREM TypeCorrect == Spec => []TypeOK
<1>1. IInv => TypeOK
      BY DEF IInv
<1> QED
    BY <1>1, Invariance, PTL

\* The columns of a delivery row belong together, however many calls overlap.
THEOREM WholeRows == Spec => []RowsAreWhole
<1>1. IInv => RowsAreWhole
      BY DEF IInv
<1> QED
    BY <1>1, Invariance, PTL

\* No attempt is counted that was not answered.
THEOREM CountedAttempts == Spec => []AttemptsWereServed
<1>1. IInv => AttemptsWereServed
      BY DEF IInv
<1> QED
    BY <1>1, Invariance, PTL

-----------------------------------------------------------------------------
(* Deliveries on which no two calls have overlapped.                       *)

On(c, d) == InFlight(c) /\ call[c].on = d

\* A row goes with its asset; before it is created nobody works on it.
RowsComeAndGo ==
    \A d \in Deliveries : delivery[d].status = "NONE" /\ stored =>
        /\ served[d] = 0 /\ d \notin confirmed
        /\ \A c \in Calls : ~On(c, d)

GoneForGood == ~stored => \A d \in Deliveries : delivery[d].status = "NONE"

\* What a call adds to the row it has read.
WritesFollowReads ==
    \A c \in Calls : InFlight(c) =>
        LET t == call[c] IN
        /\ t.write.status # "NONE"
        /\ t.write.attempts = t.read.attempts + IF t.pc = "content" THEN 1 ELSE 0
        /\ t.read.acknowledged # "NULL" => t.write.acknowledged # "NULL"

\* A call alone on its delivery has read the row that is there.
AloneIsCurrent ==
    \A d \in Deliveries \ overlapped : \A c \in Calls : On(c, d) =>
        /\ \A e \in Calls : On(e, d) => e = c
        /\ stored => call[c].read = delivery[d]

AInv ==
    /\ IInv
    /\ RowsComeAndGo
    /\ GoneForGood
    /\ WritesFollowReads
    /\ AloneIsCurrent
    /\ NothingLostAlone

LEMMA InitAInv == Init => AInv
<1> SUFFICES ASSUME Init PROVE AInv
    OBVIOUS
<1>1. \A c \in Calls : ~InFlight(c)
    BY DEF Init, InFlight, Idle
<1>2. \A d \in Deliveries : delivery[d].status = "NONE" /\ served[d] = 0
    BY DEF Init, NoRow
<1>3. stored /\ confirmed = {}
    BY DEF Init
<1> QED
    BY <1>1, <1>2, <1>3, InitIInv
       DEF AInv, RowsComeAndGo, GoneForGood, WritesFollowReads, AloneIsCurrent,
           NothingLostAlone, On

\* A call that begins follows its row, and is alone unless it says otherwise.
LEMMA ReadsAInv ==
    ASSUME AInv, IInv', NEW c \in Calls, NEW d \in Deliveries, NEW pc \in {"content", "ack"},
           NEW write \in Rows, NEW checksum \in Checksums,
           Reads(c, pc, d, write, checksum),
           write.status # "NONE",
           write.attempts = delivery[d].attempts + IF pc = "content" THEN 1 ELSE 0,
           delivery[d].acknowledged # "NULL" => write.acknowledged # "NULL"
    PROVE  AInv'
<1> DEFINE new == [pc |-> pc, on |-> d, read |-> delivery[d], write |-> write,
                   checksum |-> checksum]
<1> USE DEF AInv
<1>1. /\ call'[c] = new /\ ~InFlight(c) /\ InFlight(c)'
      /\ \A x \in Calls \ {c} : call'[x] = call[x] /\ (InFlight(x)' <=> InFlight(x))
      /\ UNCHANGED <<stored, files, delivery, served, confirmed>>
      /\ delivery[d].status # "NONE"
    BY DEF Reads, IInv, TypeOK, InFlight, Idle
<1>2. /\ \A x \in Calls \ {c} : \A e \in Deliveries : On(x, e)' <=> On(x, e)
      /\ \A e \in Deliveries : On(c, e)' <=> e = d
    BY <1>1 DEF On
<1>3. overlapped \subseteq overlapped' /\ overlapped' \subseteq overlapped \cup {d}
      /\ (d \notin overlapped' => \A o \in Calls : ~On(o, d))
    BY DEF Reads, On
<1>4. RowsComeAndGo'
    BY <1>1, <1>2 DEF RowsComeAndGo
<1>5. GoneForGood'
    BY <1>1 DEF GoneForGood
<1>6. WritesFollowReads'
    BY <1>1 DEF WritesFollowReads
<1>7. AloneIsCurrent'
    BY <1>1, <1>2, <1>3 DEF AloneIsCurrent
<1>8. NothingLostAlone'
    BY <1>1, <1>3 DEF NothingLostAlone
<1> QED
    BY <1>4, <1>5, <1>6, <1>7, <1>8

\* A call that ends alone has written what it read, and what it added.
LEMMA EndsAInv ==
    ASSUME AInv, IInv', NEW c \in Calls, ContentCommits(c) \/ AckCommits(c) \/ CallFails(c)
    PROVE  AInv'
<1> DEFINE t == call[c]
           o == call[c].on
<1> USE DEF AInv
<1>1. InFlight(c) /\ t \in Transactions
    BY DEF ContentCommits, AckCommits, CallFails, InFlight, IInv, TypeOK, Idle, Done
<1>2. /\ o \in Deliveries /\ t.write \in Rows /\ t.read \in Rows /\ t.pc \in {"content", "ack"}
      /\ Whole(t.write)
    BY <1>1 DEF Transactions, IInv, WritesAreSound
<1>3. /\ \A x \in Calls : call'[x] = IF x = c THEN Done ELSE call[x]
      /\ UNCHANGED <<stored, files, overlapped>>
    BY DEF ContentCommits, AckCommits, CallFails, Ends, IInv, TypeOK
<1>4. /\ \A x \in Calls : InFlight(x)' <=> InFlight(x) /\ x # c
      /\ \A x \in Calls : \A d \in Deliveries : On(x, d)' <=> On(x, d) /\ x # c
    BY <1>3 DEF InFlight, On, Done
<1>5. \A d \in Deliveries \ {o} : /\ delivery'[d] = delivery[d] /\ served'[d] = served[d]
                                  /\ d \in confirmed' <=> d \in confirmed
    BY <1>2 DEF ContentCommits, AckCommits, CallFails, Commits, IInv, TypeOK
<1>6. \/ delivery'[o] = delivery[o]
      \/ stored /\ delivery'[o] = t.write
    BY <1>2 DEF ContentCommits, AckCommits, CallFails, Commits, IInv, TypeOK
<1>7. On(c, o) /\ t.write.status # "NONE"
    BY <1>1 DEF On, WritesFollowReads
<1>8. RowsComeAndGo'
    BY <1>3, <1>4, <1>5, <1>6, <1>7 DEF RowsComeAndGo
<1>9. GoneForGood'
    BY <1>3, <1>5, <1>6 DEF GoneForGood
<1>10. WritesFollowReads'
    BY <1>3, <1>4 DEF WritesFollowReads
<1>11. AloneIsCurrent'
  <2> SUFFICES ASSUME NEW d \in Deliveries \ overlapped, NEW x \in Calls, On(x, d)'
               PROVE  /\ \A e \in Calls : On(e, d)' => e = x
                      /\ stored' => call'[x].read = delivery'[d]
      BY <1>3 DEF AloneIsCurrent
  <2>1. On(x, d) /\ x # c
      BY <1>4
  <2>2. d # o
      BY <2>1, <1>7 DEF AloneIsCurrent
  <2> QED
      BY <2>1, <2>2, <1>3, <1>4, <1>5 DEF AloneIsCurrent
<1>12. NothingLostAlone'
  <2> SUFFICES ASSUME NEW d \in Deliveries \ overlapped, delivery'[d].status # "NONE"
               PROVE  /\ delivery'[d].attempts = served'[d]
                      /\ d \in confirmed' => delivery'[d].acknowledged # "NULL"
      BY <1>3 DEF NothingLostAlone
  <2>1. CASE d # o
      BY <2>1, <1>5 DEF NothingLostAlone
  <2>2. CASE d = o
    <3>1. stored
        BY <2>2, <1>6 DEF GoneForGood
    <3>2. /\ t.read = delivery[o] /\ delivery[o].status # "NONE"
        BY <2>2, <3>1, <1>7 DEF AloneIsCurrent, RowsComeAndGo
    <3>3. /\ delivery[o].attempts = served[o] /\ served[o] \in Nat
          /\ o \in confirmed => delivery[o].acknowledged # "NULL"
        BY <2>2, <3>2, <1>2 DEF NothingLostAlone, IInv, TypeOK
    <3>4. /\ t.write.attempts = served[o] + IF t.pc = "content" THEN 1 ELSE 0
          /\ o \in confirmed => t.write.acknowledged # "NULL"
        BY <3>2, <3>3, <1>1 DEF WritesFollowReads
    <3>5. CASE ContentCommits(c)
      <4>1. t.pc = "content" /\ served'[o] = served[o] + 1 /\ confirmed' = confirmed
          BY <3>5, <1>2 DEF ContentCommits, IInv, TypeOK
      <4>2. Changed(t)
          BY <3>2, <3>3, <3>4, <4>1 DEF Changed
      <4>3. delivery'[o] = t.write
          BY <3>5, <4>2, <1>2 DEF ContentCommits, Commits, IInv, TypeOK
      <4> QED
          BY <2>2, <3>4, <4>1, <4>3
    <3>6. CASE AckCommits(c)
      <4>1. /\ t.pc = "ack" /\ served' = served
            /\ confirmed' = IF t.write.status = "DELIVERED" THEN confirmed \cup {o} ELSE confirmed
          BY <3>6 DEF AckCommits
      <4>2. t.write.attempts = served[o]
          BY <3>3, <3>4, <4>1
      <4>3. t.write.status = "DELIVERED" => t.write.acknowledged # "NULL"
          BY <1>2 DEF Whole
      <4>4. CASE Changed(t)
        <5>1. delivery'[o] = t.write
            BY <3>6, <4>4, <1>2 DEF AckCommits, Commits, IInv, TypeOK
        <5> QED
            BY <2>2, <3>4, <4>1, <4>2, <4>3, <5>1
      <4>5. CASE ~Changed(t)
        <5>1. delivery' = delivery
            BY <3>6, <4>5 DEF AckCommits, Commits
        <5>2. confirmed' = confirmed
            BY <4>1, <4>5 DEF Changed
        <5> QED
            BY <2>2, <3>3, <4>1, <5>1, <5>2
      <4> QED
          BY <4>4, <4>5
    <3>7. CASE CallFails(c)
        BY <2>2, <3>3, <3>7 DEF CallFails
    <3> QED
        BY <3>5, <3>6, <3>7
  <2> QED
      BY <2>1, <2>2
<1> QED
    BY <1>8, <1>9, <1>10, <1>11, <1>12

LEMMA NextAInv == AInv /\ [Next]_vars => AInv'
<1> SUFFICES ASSUME AInv, [Next]_vars PROVE AInv'
    OBVIOUS
<1>0. IInv' /\ IInv
    BY NextIInv DEF AInv
<1>1. ASSUME NEW d \in Deliveries, NEW v \in Variants, Create(d, v) PROVE AInv'
  <2>1. /\ stored /\ delivery[d].status = "NONE"
        /\ UNCHANGED <<stored, files, call, served, confirmed, overlapped>>
        /\ \A e \in Deliveries \ {d} : delivery'[e] = delivery[e]
        /\ delivery'[d].status = "AVAILABLE" /\ delivery'[d].attempts = 0
      BY <1>0, <1>1 DEF Create, NoRow, IInv, TypeOK
  <2>2. \A c \in Calls : \A e \in Deliveries : On(c, e)' <=> On(c, e)
      BY <2>1 DEF On, InFlight
  <2>3. served[d] = 0 /\ d \notin confirmed /\ \A c \in Calls : ~On(c, d)
      BY <2>1 DEF AInv, RowsComeAndGo
  <2>4. RowsComeAndGo' /\ GoneForGood' /\ AloneIsCurrent' /\ NothingLostAlone'
      BY <2>1, <2>2, <2>3
         DEF AInv, RowsComeAndGo, GoneForGood, AloneIsCurrent, NothingLostAlone
  <2>5. WritesFollowReads'
      BY <2>1 DEF AInv, WritesFollowReads, InFlight
  <2> QED
      BY <1>0, <2>4, <2>5 DEF AInv
<1>2. ASSUME NEW c \in Calls, NEW d \in Deliveries, ContentReads(c, d) PROVE AInv'
  <2>1. /\ Reads(c, "content", d, ServedRow(delivery[d]), "sha-other")
        /\ delivery[d] \in Rows /\ Whole(delivery[d])
        /\ delivery[d].attempts < Cardinality(Calls)
      BY <1>0, <1>2 DEF ContentReads, IInv, TypeOK, RowsAreWhole
  <2>2. /\ ServedRow(delivery[d]) \in Rows
        /\ ServedRow(delivery[d]).attempts = delivery[d].attempts + 1
      BY <2>1, ServedRowIsWhole
  <2>3. /\ ServedRow(delivery[d]).status = "AVAILABLE"
        /\ ServedRow(delivery[d]).acknowledged = delivery[d].acknowledged
      BY <2>1 DEF ServedRow, Rows
  <2> QED
      BY <1>0, <2>1, <2>2, <2>3, ReadsAInv DEF Checksums
<1>3. ASSUME NEW c \in Calls, NEW d \in Deliveries, NEW s \in Checksums, AckReads(c, d, s)
      PROVE  AInv'
  <2> DEFINE row == AcknowledgedRow(delivery[d], s)
  <2>1. /\ Reads(c, "ack", d, row, s)
        /\ delivery[d] \in Rows /\ Whole(delivery[d])
      BY <1>0, <1>3 DEF AckReads, IInv, TypeOK, RowsAreWhole
  <2>2. row \in Rows /\ row.attempts = delivery[d].attempts
      BY <2>1, AcknowledgedRowIsWhole
  <2>3. /\ row.status # "NONE"
        /\ delivery[d].acknowledged # "NULL" => row.acknowledged # "NULL"
      BY <2>1 DEF AcknowledgedRow, AcceptedRow, RefusedRow, Rows, Checksums
  <2>4. row.attempts = delivery[d].attempts + 0
      BY <2>1, <2>2, CallsAreCounted DEF Rows
  <2> QED
      BY <1>0, <2>1, <2>2, <2>3, <2>4, ReadsAInv
<1>4. ASSUME NEW c \in Calls, ContentCommits(c) \/ AckCommits(c) \/ CallFails(c)
      PROVE  AInv'
    BY <1>0, <1>4, EndsAInv
<1>5. ASSUME UNCHANGED <<stored, delivery, call, served, confirmed, overlapped>>
      PROVE  AInv'
    BY <1>0, <1>5 DEF AInv, RowsComeAndGo, GoneForGood, WritesFollowReads, AloneIsCurrent,
                      NothingLostAlone, On, InFlight
<1>6. ASSUME AssetDeleted PROVE AInv'
  <2>1. /\ ~stored' /\ \A d \in Deliveries : delivery'[d].status = "NONE"
        /\ UNCHANGED <<call, overlapped>>
      BY <1>6 DEF AssetDeleted, NoRow
  <2>2. \A c \in Calls : (\A d \in Deliveries : On(c, d)' <=> On(c, d)) /\ (InFlight(c)' <=> InFlight(c))
      BY <2>1 DEF On, InFlight
  <2> QED
      BY <1>0, <2>1, <2>2 DEF AInv, RowsComeAndGo, GoneForGood, WritesFollowReads,
                              AloneIsCurrent, NothingLostAlone
<1>7. \A v \in Variants : FileRemoved(v) => AInv'
    BY <1>5 DEF FileRemoved
<1>8. Quiet \/ UNCHANGED vars => AInv'
    BY <1>5 DEF Quiet, vars
<1> QED
    BY <1>1, <1>2, <1>3, <1>4, <1>6, <1>7, <1>8 DEF Next

\* A client that waits for its answer before it calls again loses nothing:
\* every download is counted, every confirmed acknowledgement stays.
THEOREM NothingIsLostAlone == Spec => []NothingLostAlone
<1>1. AInv => NothingLostAlone
      BY DEF AInv
<1> QED
    BY <1>1, InitAInv, NextAInv, PTL DEF Spec
=============================================================================
