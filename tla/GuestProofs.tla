---------------------------- MODULE GuestProofs ------------------------------
(***************************************************************************)
(* What a guest prepares for a checkout: the proof of payment (Receipts)   *)
(* and the lines of the cart (Cart).  The two have no state in common, and *)
(* each theorem is about one of them.                                      *)
(*                                                                         *)
(* A receipt's file and its row stay together, for any number of carts and *)
(* uploads, any cap and any batch of the cleanup.                          *)
(*                                                                         *)
(* A cart never holds more than was asked for, for any number of requests  *)
(* and variants: each line owes its units to requests of its own, and      *)
(* whatever a handler had read, a line that is still there when it writes  *)
(* owes no fewer than then.                                                *)
(***************************************************************************)
EXTENDS Receipts, Cart, FiniteSetTheorems, TLAPS

-----------------------------------------------------------------------------
(* Receipts                                                                *)

USE ReceiptsAssumption DEF ReceiptsAssumption

LEMMA AttachType ==
  ASSUME ReceiptsTypeOK, NEW u \in Upload, Attach(u)
  PROVE  /\ row' \in [Upload -> {"NONE", "UNATTACHED", "ATTACHED", "DELETED"}]
         /\ expiry' \in [Upload -> {"NULL", "FUTURE", "PAST"}]
         /\ attached' \in [Cart -> Seq(Upload)]
<1>1. CartOf[u] \in Cart /\ attached[CartOf[u]] \in Seq(Upload)
  BY DEF ReceiptsTypeOK
<1>2. Append(attached[CartOf[u]], u) \in Seq(Upload)
  BY <1>1
<1> QED
  BY <1>1, <1>2 DEF ReceiptsTypeOK, Attach

LEMMA ReceiptsTypeStep == ReceiptsTypeOK /\ [Next]_vars => ReceiptsTypeOK'
<1> SUFFICES ASSUME ReceiptsTypeOK, [Next]_vars PROVE ReceiptsTypeOK'
  OBVIOUS
<1> USE DEF ReceiptsTypeOK, Goto, rowVars, sweepVars
<1>1. ASSUME NEW u \in Upload,
             \/ CheckCart(u) \/ CountPending(u) \/ Save(u) \/ InsertRow(u)
             \/ CheckReplacement(u) \/ Recheck(u) \/ InsertFails(u) \/ Undo(u)
             \/ RejectReceipt(u) \/ Lapse(u)
      PROVE  ReceiptsTypeOK'
  BY <1>1
     DEF CheckCart, CountPending, Save, InsertRow, CheckReplacement, Recheck, InsertFails,
         Undo, RejectReceipt, Lapse
<1>2. ASSUME NEW u \in Upload, InsertReplacement(u)
      PROVE  ReceiptsTypeOK'
  BY <1>2, AttachType DEF InsertReplacement
<1>3. ASSUME NEW u \in Upload, InsertUnacknowledged(u)
      PROVE  ReceiptsTypeOK'
  <2>1. /\ row' \in [Upload -> {"NONE", "UNATTACHED", "ATTACHED", "DELETED"}]
        /\ expiry' \in [Upload -> {"NULL", "FUTURE", "PAST"}]
        /\ attached' \in [Cart -> Seq(Upload)]
    BY <1>3, AttachType DEF InsertUnacknowledged
  <2>2. failures' \in Nat
    BY <1>3 DEF InsertUnacknowledged
  <2> QED
    BY <1>3, <2>1, <2>2 DEF InsertUnacknowledged
<1>4. ASSUME NEW c \in Cart, NEW u \in Upload, AttachToOrder(c, u)
      PROVE  ReceiptsTypeOK'
  BY <1>4, AttachType DEF AttachToOrder
<1>5. ASSUME NEW c \in Cart, AcceptPendingReceipt(c)
      PROVE  ReceiptsTypeOK'
  BY <1>5 DEF AcceptPendingReceipt
<1>6. ASSUME NEW c \in Cart, CancelOrder(c)
      PROVE  ReceiptsTypeOK'
  BY <1>6 DEF CancelOrder
<1>7. ASSUME StartCleanup \/ Unlink \/ EndCleanup
      PROVE  ReceiptsTypeOK'
  BY <1>7 DEF StartCleanup, Unlink, EndCleanup, Lapsed
<1>8. ASSUME NEW u \in selected, DeleteRow(u)
      PROVE  ReceiptsTypeOK'
  <2>1. u \in Upload
    OBVIOUS
  <2>2. /\ selected' \subseteq Upload
        /\ unlinking' \subseteq Upload
        /\ row' \in [Upload -> {"NONE", "UNATTACHED", "ATTACHED", "DELETED"}]
    <3>1. selected' = selected \ {u}
      BY <1>8 DEF DeleteRow
    <3>2. \/ row' = [row EXCEPT ![u] = "DELETED"] /\ unlinking' = {u}
          \/ UNCHANGED <<row, unlinking>>
      BY <1>8, Zenon DEF DeleteRow
    <3> QED
      BY <2>1, <3>1, <3>2
  <2> QED
    BY <1>8, <2>2 DEF DeleteRow
<1>9. ASSUME RemovalFails
      PROVE  ReceiptsTypeOK'
  <2>1. failures' \in Nat
    BY <1>9 DEF RemovalFails
  <2>2. unlinking' \subseteq Upload
    BY <1>9 DEF RemovalFails
  <2>3. UNCHANGED pc \/ \E u \in Upload : Goto(u, "done")
    BY <1>9 DEF RemovalFails
  <2> QED
    BY <1>9, <2>1, <2>2, <2>3 DEF RemovalFails
<1>10. ASSUME Crash
       PROVE  ReceiptsTypeOK'
  BY <1>10 DEF Crash
<1>11. ASSUME UNCHANGED vars
       PROVE  ReceiptsTypeOK'
  BY <1>11 DEF vars
<1> HIDE DEF ReceiptsTypeOK
<1> QED
  BY <1>1, <1>2, <1>3, <1>4, <1>5, <1>6, <1>7, <1>8, <1>9, <1>10, <1>11, Zenon
     DEF Next, Handle, Cleanup

LEMMA ReceiptsTypeInit == Init => ReceiptsTypeOK
<1>1. <<>> \in Seq(Upload)
  OBVIOUS
<1> QED
  BY <1>1 DEF Init, ReceiptsTypeOK

(* Every row, file and handler is what its column or its code allows.      *)
THEOREM ReceiptsTypeCorrect == Spec => []ReceiptsTypeOK
BY ReceiptsTypeInit, ReceiptsTypeStep, PTL DEF Spec

-----------------------------------------------------------------------------

Stored(u) == row[u] \in {"UNATTACHED", "ATTACHED"}

(* While nothing has failed, where the handler of u is says what there is  *)
(* of u, and the cleanup removes files of deleted rows only.               *)
FileOf(u) ==
  /\ pc[u] \in {"new", "count", "save", "resave"} => u \notin files /\ row[u] = "NONE"
  /\ pc[u] \in {"insert", "recheck", "reinsert", "undo"} => u \in files /\ row[u] = "NONE"
  /\ pc[u] = "done" /\ u \notin unlinking => (u \in files <=> Stored(u))
  /\ u \in unlinking => pc[u] = "done" /\ row[u] = "DELETED"

FileInv == ReceiptsTypeOK /\ (failures = 0 => \A u \in Upload : FileOf(u))

LEMMA FileStep == FileInv /\ [Next]_vars => FileInv'
<1> SUFFICES ASSUME FileInv, [Next]_vars, failures' = 0, NEW v \in Upload
             PROVE  FileOf(v)'
  BY ReceiptsTypeStep DEF FileInv
<1>1. failures = 0
  BY DEF FileInv, ReceiptsTypeOK, Next, Handle, Cleanup, vars, CheckCart, CountPending,
         Save, InsertRow, CheckReplacement, Recheck, InsertReplacement, InsertFails,
         InsertUnacknowledged, Undo, RejectReceipt, Lapse, AttachToOrder,
         AcceptPendingReceipt, CancelOrder, StartCleanup, DeleteRow, Unlink, EndCleanup,
         RemovalFails, Crash
<1>2. ReceiptsTypeOK /\ \A u \in Upload : FileOf(u)
  BY <1>1 DEF FileInv
<1> USE DEF ReceiptsTypeOK, FileOf, Stored, Goto, rowVars, sweepVars
<1>3. ASSUME NEW u \in Upload,
             \/ CheckCart(u) \/ CountPending(u) \/ Save(u) \/ InsertRow(u)
             \/ CheckReplacement(u) \/ Recheck(u) \/ InsertFails(u) \/ Undo(u)
      PROVE  FileOf(v)'
  BY <1>2, <1>3
     DEF CheckCart, CountPending, Save, InsertRow, CheckReplacement, Recheck, InsertFails,
         Undo
<1>4. ASSUME NEW u \in Upload, InsertReplacement(u)
      PROVE  FileOf(v)'
  BY <1>2, <1>4 DEF InsertReplacement, Attach
<1>5. ASSUME NEW u \in Upload, InsertUnacknowledged(u)
      PROVE  FileOf(v)'
  BY <1>1, <1>5 DEF InsertUnacknowledged
<1>6. ASSUME NEW u \in Upload, RejectReceipt(u) \/ Lapse(u)
      PROVE  FileOf(v)'
  BY <1>2, <1>6 DEF RejectReceipt, Lapse
<1>7. ASSUME NEW c \in Cart, NEW u \in Upload, AttachToOrder(c, u)
      PROVE  FileOf(v)'
  <2>1. row[u] = "UNATTACHED" /\ pc[u] = "done" /\ u \notin unlinking
    BY <1>2, <1>7 DEF AttachToOrder
  <2> QED
    BY <1>2, <1>7, <2>1 DEF AttachToOrder, Attach
<1>8. ASSUME NEW c \in Cart, AcceptPendingReceipt(c) \/ CancelOrder(c)
      PROVE  FileOf(v)'
  BY <1>2, <1>8 DEF AcceptPendingReceipt, CancelOrder
<1>9. ASSUME NEW u \in selected, DeleteRow(u)
      PROVE  FileOf(v)'
  <2>1. u \in Lapsed => row[u] = "UNATTACHED" /\ pc[u] = "done" /\ u \in Upload
    BY <1>2 DEF Lapsed
  <2> QED
    BY <1>2, <1>9, <2>1 DEF DeleteRow
<1>10. ASSUME StartCleanup \/ Unlink \/ EndCleanup
       PROVE  FileOf(v)'
  BY <1>2, <1>10 DEF StartCleanup, Unlink, EndCleanup
<1>11. ASSUME RemovalFails \/ Crash
       PROVE  FileOf(v)'
  BY <1>1, <1>11 DEF RemovalFails, Crash
<1>12. ASSUME UNCHANGED vars
       PROVE  FileOf(v)'
  BY <1>2, <1>12 DEF vars
<1> HIDE DEF ReceiptsTypeOK, FileOf
<1> QED
  BY <1>3, <1>4, <1>5, <1>6, <1>7, <1>8, <1>9, <1>10, <1>11, <1>12, Zenon
     DEF Next, Handle, Cleanup

(* Unless the process, the disk or the connection fails, no file is left   *)
(* without its row and no row without its file, whatever is refused,       *)
(* attached, rejected, replaced or cleaned up at the same time.            *)
THEOREM FilesAlwaysMatchRows == Spec => []FilesMatchRows
<1>1. Init => FileInv
  BY ReceiptsTypeInit DEF Init, FileInv, FileOf, Stored
<1>2. FileInv => FilesMatchRows
  BY DEF FileInv, FileOf, Stored, FilesMatchRows
<1> QED
  BY <1>1, <1>2, FileStep, PTL DEF Spec

HIDE ReceiptsAssumption DEF ReceiptsAssumption

-----------------------------------------------------------------------------
(* The lines of a cart                                                     *)

USE CartAssumption DEF CartAssumption

(* The units that the requests in R bring in.                              *)
Asked(jobs, R) == UNION {{r} \X (1 .. jobs[r].asked) : r \in R}

(* There are n units among them.                                           *)
Covers(jobs, R, n) == n <= Cardinality(Asked(jobs, R))

Answered == {r \in Request : step[r] = "done"}

(* from[i] are the requests that line i owes its units to.  No two lines   *)
(* share one, ...                                                          *)
OwedTo(from) ==
  /\ \A i \in DOMAIN lines :
       from[i] \subseteq Answered /\ Covers(job, from[i], lines[i].quantity)
  /\ \A i, j \in DOMAIN lines : i # j => from[i] \cap from[j] = {}

(* ... and what a handler is about to write is covered too, whatever became*)
(* of the lines it had read: a line that is still there owes no fewer.     *)
CoveredBy(from, r) ==
  LET j == job[r] IN
  step[r] = "write" =>
    /\ j.op # "create" => j.line \in Answered
    /\ j.op = "quantity" /\ j.line \in DOMAIN lines =>
         Covers(job, from[j.line] \cup {r}, j.quantity)
    /\ j.op = "move" /\ j.line \in DOMAIN lines => Covers(job, from[j.line], j.quantity)
    /\ j.op = "merge" =>
         /\ j.into \in Answered /\ j.into # j.line
         /\ {j.line, j.into} \subseteq DOMAIN lines =>
              Covers(job, from[j.line] \cup from[j.into], j.quantity)

(* What a handler decides to write, when it has just read the lines.       *)
FitsLines(what) ==
  /\ what.op # "none"
  /\ what.op = "create" => what.quantity = what.asked
  /\ what.op # "create" => what.line \in DOMAIN lines
  /\ what.op = "quantity" => what.quantity <= lines[what.line].quantity + what.asked
  /\ what.op = "move" => what.quantity <= lines[what.line].quantity
  /\ what.op = "merge" =>
       /\ what.into \in DOMAIN lines \ {what.line}
       /\ what.quantity <= lines[what.line].quantity + lines[what.into].quantity

Traced(from) == OwedTo(from) /\ \A r \in Request : CoveredBy(from, r)

(* A line bears the name of the request that created it, and a request     *)
(* brings nothing before it has read.                                      *)
Named ==
  /\ DOMAIN lines \subseteq Answered
  /\ \A r \in Request :
       /\ step[r] \in {"new", "admitted"} => job[r].asked = 0
       /\ step[r] \in {"write", "winner"} => job[r].op # "none"
       /\ step[r] = "winner" => job[r].op = "create"
       /\ job[r].op = "create" => job[r].quantity = job[r].asked

UnitsOf(found) == UNION {{i} \X (1 .. found[i].quantity) : i \in DOMAIN found}

OrderedIsCovered ==
  /\ Cardinality(UnitsOf(ordered)) \in Nat
  /\ Cardinality(UnitsOf(ordered)) <= Cardinality(Asked(job, Request))

CartInv ==
  /\ CartTypeOK /\ Named /\ OrderedIsCovered
  /\ \E from \in [Request -> SUBSET Request] : Traced(from)

-----------------------------------------------------------------------------
(* Types                                                                   *)

(* What a job has by its kind.                                             *)
LEMMA JobFields ==
  ASSUME NEW j \in Job
  PROVE  /\ j.op \in {"none", "create", "quantity", "delete", "switch", "move", "merge", "attach"}
         /\ j.asked \in Amounts \cup {0} /\ j.asked \in Nat
         /\ j.op \in {"create", "quantity", "move", "merge"} => j.quantity \in 1..MaxQuantity
         /\ j.op \in {"create", "switch", "move"} => j.variant \in Variant
         /\ j.op \in {"create", "attach"} => j.design \in Design \cup {NoDesign}
         /\ j.op \notin {"none", "create"} => j.line \in Request
         /\ j.op = "merge" => j.into \in Request
<1>1. \A n \in Amounts : n \in 1..MaxQuantity /\ n \in Nat
  OBVIOUS
<1>2. CASE j \in Creations
  BY <1>1, <1>2 DEF Creations
<1>3. CASE j \in Resizings
  BY <1>1, <1>3 DEF Resizings
<1>4. CASE j \in Deletions
  BY <1>4 DEF Deletions
<1>5. CASE j \in Switches
  BY <1>5 DEF Switches
<1>6. CASE j \in Moves
  BY <1>6 DEF Moves
<1>7. CASE j \in Mergers
  BY <1>7 DEF Mergers
<1>8. CASE j \in Attachments
  BY <1>8 DEF Attachments
<1>9. CASE j = NoJob
  BY <1>9 DEF NoJob
<1> QED
  BY <1>2, <1>3, <1>4, <1>5, <1>6, <1>7, <1>8, <1>9 DEF Job

(* Creations are told by their name.                                       *)
LEMMA CreationsOnly ==
  ASSUME NEW j \in Job, j.op = "create"
  PROVE  j \in Creations
BY DEF Job, Resizings, Deletions, Switches, Moves, Mergers, Attachments, NoJob

(* A request asks for a number of units.                                   *)
LEMMA AskedIsNat ==
  ASSUME CartTypeOK
  PROVE  \A r \in Request : job[r].asked \in Nat
<1> SUFFICES ASSUME NEW r \in Request PROVE job[r].asked \in Nat
  OBVIOUS
<1>1. job[r] \in Job
  BY DEF CartTypeOK
<1> QED
  BY <1>1, JobFields

-----------------------------------------------------------------------------
(* Units                                                                   *)

(* There are n pairs of r and a number from 1 to n.                        *)
LEMMA OwnUnits ==
  ASSUME NEW r, NEW n \in Nat
  PROVE  IsFiniteSet({r} \X (1 .. n)) /\ Cardinality({r} \X (1 .. n)) = n
<1> DEFINE own == {r} \X (1 .. n)
<1>1. IsFiniteSet({r}) /\ Cardinality({r}) = 1
  BY FS_Singleton
<1>2. IsFiniteSet(1 .. n) /\ Cardinality(1 .. n) = n
  <2>1. CASE n = 0
    <3>1. 1 .. n = {}
      BY <2>1
    <3> QED
      BY <2>1, <3>1, FS_EmptySet
  <2>2. CASE n > 0
    BY <2>2, FS_Interval
  <2> QED
    BY <2>1, <2>2
<1>3. IsFiniteSet(own) /\ Cardinality(own) = Cardinality({r}) * Cardinality(1 .. n)
  BY <1>1, <1>2, FS_Product
<1> HIDE DEF own
<1>4. Cardinality(own) = 1 * n
  BY <1>1, <1>2, <1>3, Zenon
<1>5. 1 * n = n
  OBVIOUS
<1>6. IsFiniteSet(own) /\ Cardinality(own) = n
  BY <1>3, <1>4, <1>5, Zenon
<1> QED
  BY <1>6 DEF own

(* A request covers what it asked for.                                     *)
LEMMA CoversItself ==
  ASSUME NEW jobs, NEW r, jobs[r].asked \in Nat
  PROVE  Covers(jobs, {r}, jobs[r].asked)
<1> DEFINE n == jobs[r].asked
<1>1. Asked(jobs, {r}) = {r} \X (1 .. n)
  BY DEF Asked
<1>2. Cardinality({r} \X (1 .. n)) = n
  BY OwnUnits
<1>3. n <= n
  OBVIOUS
<1> QED
  BY <1>1, <1>2, <1>3 DEF Covers

(* The units of any requests can be counted.                               *)
LEMMA AskedFinite ==
  ASSUME NEW jobs, NEW R \in SUBSET Request, \A r \in Request : jobs[r].asked \in Nat
  PROVE  IsFiniteSet(Asked(jobs, R)) /\ Cardinality(Asked(jobs, R)) \in Nat
<1> DEFINE own(r) == {r} \X (1 .. jobs[r].asked)
           unitsOf == [r \in R |-> own(r)]
           T == {unitsOf[r] : r \in R}
<1>1. IsFiniteSet(R)
  BY FS_Subset
<1>2. IsFiniteSet(T)
  <2>1. unitsOf \in Surjection(R, T)
    BY DEF Surjection
  <2> QED
    BY <1>1, <2>1, FS_Surjection
<1>3. ASSUME NEW r \in R
      PROVE  IsFiniteSet(unitsOf[r])
  <2>1. jobs[r].asked \in Nat
    OBVIOUS
  <2>2. IsFiniteSet(own(r))
    BY <2>1, OwnUnits
  <2> HIDE DEF own
  <2>3. unitsOf[r] = own(r)
    OBVIOUS
  <2> QED
    BY <2>2, <2>3, Zenon
<1>4. Asked(jobs, R) = UNION T
  BY DEF Asked
<1> HIDE DEF own, unitsOf
<1>5. \A t \in T : IsFiniteSet(t)
  BY <1>3
<1> HIDE DEF T
<1>6. IsFiniteSet(UNION T)
  BY <1>2, <1>5, FS_UNION
<1> QED
  BY <1>4, <1>6, FS_CardinalityType

(* More requests cover more.                                               *)
LEMMA CoversMore ==
  ASSUME NEW jobs, NEW R, NEW S \in SUBSET Request, R \subseteq S,
         \A r \in Request : jobs[r].asked \in Nat,
         NEW n \in Nat, NEW m \in Nat, m <= n, Covers(jobs, R, n)
  PROVE  Covers(jobs, S, m)
<1>1. IsFiniteSet(Asked(jobs, S)) /\ Cardinality(Asked(jobs, S)) \in Nat
  BY AskedFinite
<1>2. Asked(jobs, R) \in SUBSET Asked(jobs, S)
  BY DEF Asked
<1>3. IsFiniteSet(Asked(jobs, R)) /\ Cardinality(Asked(jobs, R)) <= Cardinality(Asked(jobs, S))
  BY <1>1, <1>2, FS_Subset
<1>4. Cardinality(Asked(jobs, R)) \in Nat
  BY <1>3, FS_CardinalityType
<1> QED
  BY <1>1, <1>3, <1>4 DEF Covers

(* Requests apart cover the sum.                                           *)
LEMMA CoversSum ==
  ASSUME NEW jobs, NEW R \in SUBSET Request, NEW S \in SUBSET Request, R \cap S = {},
         \A r \in Request : jobs[r].asked \in Nat,
         NEW m \in Nat, NEW n \in Nat, Covers(jobs, R, m), Covers(jobs, S, n)
  PROVE  Covers(jobs, R \cup S, m + n)
<1> DEFINE A == Asked(jobs, R)
           B == Asked(jobs, S)
<1>1. /\ IsFiniteSet(A) /\ Cardinality(A) \in Nat
      /\ IsFiniteSet(B) /\ Cardinality(B) \in Nat
  BY AskedFinite
<1>2. Asked(jobs, R \cup S) = A \cup B /\ A \cap B = {}
  BY DEF Asked
<1>3. m <= Cardinality(A) /\ n <= Cardinality(B)
  BY DEF Covers
<1> HIDE DEF A, B
<1>4. Cardinality(A \cap B) = 0
  BY <1>2, FS_EmptySet
<1>5. Cardinality(A \cup B) = Cardinality(A) + Cardinality(B) - Cardinality(A \cap B)
  BY <1>1, FS_Union
<1>6. m + n <= Cardinality(A \cup B)
  BY <1>1, <1>3, <1>4, <1>5
<1> QED
  BY <1>2, <1>6 DEF Covers

(* What was asked stays asked.                                             *)
LEMMA SameAsked ==
  ASSUME NEW jobs, NEW later, NEW R, \A r \in R : later[r].asked = jobs[r].asked
  PROVE  Asked(later, R) = Asked(jobs, R)
BY DEF Asked

(* A set has room for as many numbers as it has elements.                  *)
LEMMA NumbersFit ==
  ASSUME NEW S, IsFiniteSet(S), NEW n \in Nat, n <= Cardinality(S)
  PROVE  \E f \in [1 .. n -> S] : \A a, b \in 1 .. n : f[a] = f[b] => a = b
<1>1. PICK f : f \in Bijection(1 .. Cardinality(S), S)
  BY FS_CardinalityType DEF ExistsBijection
<1>2. /\ f \in [1 .. Cardinality(S) -> S]
      /\ \A a, b \in 1 .. Cardinality(S) : f[a] = f[b] => a = b
  BY <1>1 DEF Bijection, Injection, IsInjective
<1>3. \A a \in 1 .. n : a \in 1 .. Cardinality(S)
  BY FS_CardinalityType
<1> DEFINE g == [a \in 1 .. n |-> f[a]]
<1>4. g \in [1 .. n -> S]
  BY <1>2, <1>3
<1>5. \A a, b \in 1 .. n : g[a] = g[b] => a = b
  BY <1>2, <1>3
<1> QED
  BY <1>4, <1>5

(* Lines that owe their units to different requests have no more of them.  *)
LEMMA LinesAreCovered ==
  ASSUME CartTypeOK, NEW from \in [Request -> SUBSET Request], OwedTo(from)
  PROVE  /\ Cardinality(UnitsOf(lines)) \in Nat
         /\ Cardinality(UnitsOf(lines)) <= Cardinality(Asked(job, Request))
<1> DEFINE U == UnitsOf(lines)
           A == Asked(job, Request)
           fits(i, f) == /\ f \in [1 .. lines[i].quantity -> Asked(job, from[i])]
                         /\ \A a, b \in 1 .. lines[i].quantity : f[a] = f[b] => a = b
           choice == [i \in DOMAIN lines |-> CHOOSE f : fits(i, f)]
           h == [u \in U |-> choice[u[1]][u[2]]]
<1>1. \A r \in Request : job[r].asked \in Nat
  BY AskedIsNat, Zenon
<1>2. IsFiniteSet(A)
  BY <1>1, AskedFinite
<1>3. ASSUME NEW i \in DOMAIN lines
      PROVE  fits(i, choice[i])
  <2>1. i \in Request /\ lines[i].quantity \in Nat
    BY DEF CartTypeOK, LineRecord
  <2>2. IsFiniteSet(Asked(job, from[i]))
    BY <1>1, <2>1, AskedFinite
  <2>3. lines[i].quantity <= Cardinality(Asked(job, from[i]))
    BY DEF OwedTo, Covers
  <2>4. \E f : fits(i, f)
    BY <2>1, <2>2, <2>3, NumbersFit
  <2> HIDE DEF fits
  <2> QED
    BY <2>4
<1>4. \A u \in U : u[1] \in DOMAIN lines /\ u[2] \in 1 .. lines[u[1]].quantity /\ u = <<u[1], u[2]>>
  BY DEF UnitsOf
<1>5. \A i \in DOMAIN lines : i \in Request /\ Asked(job, from[i]) \subseteq A
  BY DEF CartTypeOK, Asked
<1>6. \A i, j \in DOMAIN lines : i # j => Asked(job, from[i]) \cap Asked(job, from[j]) = {}
  BY DEF OwedTo, Asked
<1> HIDE DEF U, A, choice
<1>7. ASSUME NEW u \in U
      PROVE  h[u] \in Asked(job, from[u[1]]) /\ h[u] \in A
  <2>1. choice[u[1]] \in [1 .. lines[u[1]].quantity -> Asked(job, from[u[1]])]
    BY <1>3, <1>4
  <2>2. h[u] \in Asked(job, from[u[1]])
    BY <1>4, <2>1
  <2> QED
    BY <1>4, <1>5, <2>2
<1>8. ASSUME NEW u \in U, NEW v \in U, h[u] = h[v]
      PROVE  u = v
  <2>1. u[1] = v[1]
    BY <1>4, <1>6, <1>7, <1>8
  <2>2. u[2] = v[2]
    BY <1>3, <1>4, <1>8, <2>1
  <2> QED
    BY <1>4, <2>1, <2>2
<1>9. h \in Injection(U, A)
  BY <1>7, <1>8 DEF Injection, IsInjective
<1>10. Cardinality(U) <= Cardinality(A) /\ Cardinality(U) \in Nat
  BY <1>2, <1>9, FS_Injection, FS_CardinalityType
<1> QED
  BY <1>10 DEF U, A

-----------------------------------------------------------------------------
(* Steps                                                                   *)

(* What each kind of write does to the quantities.                         *)
LEMMA WrittenQuantities ==
  ASSUME CartTypeOK, NEW r \in Request, job[r].op # "none", RowsExist(r),
         job[r].op = "merge" => job[r].into # job[r].line
  PROVE  LET j == job[r]
             new == Written(r)
         IN  /\ j.op = "create" =>
                  /\ DOMAIN new = DOMAIN lines \cup {r}
                  /\ new[r].quantity = j.quantity
                  /\ \A i \in DOMAIN lines \ {r} : new[i].quantity = lines[i].quantity
             /\ j.op \in {"quantity", "move"} =>
                  /\ DOMAIN new = DOMAIN lines
                  /\ new[j.line].quantity = j.quantity
                  /\ \A i \in DOMAIN lines \ {j.line} : new[i].quantity = lines[i].quantity
             /\ j.op \in {"switch", "attach"} =>
                  /\ DOMAIN new = DOMAIN lines
                  /\ \A i \in DOMAIN lines : new[i].quantity = lines[i].quantity
             /\ j.op = "delete" =>
                  /\ DOMAIN new = DOMAIN lines \ {j.line}
                  /\ \A i \in DOMAIN new : new[i].quantity = lines[i].quantity
             /\ j.op = "merge" =>
                  /\ DOMAIN new = DOMAIN lines \ {j.line}
                  /\ new[j.into].quantity = j.quantity
                  /\ \A i \in DOMAIN new \ {j.into} : new[i].quantity = lines[i].quantity
             /\ DOMAIN new \subseteq Request
             /\ \A i \in DOMAIN new : new[i] \in LineRecord
<1> DEFINE j == job[r]
           new == Written(r)
<1>1. /\ j \in Job /\ DOMAIN lines \subseteq Request
      /\ \A i \in DOMAIN lines : lines[i] \in LineRecord
  BY DEF CartTypeOK
<1>2. CASE j.op = "create"
  <2>1. new = [i \in DOMAIN lines \cup {r} |->
                 IF i = r THEN [variant |-> j.variant, quantity |-> j.quantity,
                                design |-> j.design,
                                personalized |-> j.variant \in Personalizable]
                          ELSE lines[i]]
    BY <1>2 DEF Written
  <2>2. /\ j.variant \in Variant /\ j.quantity \in 1..MaxQuantity
        /\ j.design \in Design \cup {NoDesign}
    BY <1>1, <1>2, JobFields
  <2>3. \A i \in DOMAIN new : new[i] \in LineRecord
    BY <1>1, <2>1, <2>2 DEF LineRecord
  <2> QED
    BY <1>1, <1>2, <2>1, <2>3
<1>3. CASE j.op = "quantity"
  <2>1. new = [lines EXCEPT ![j.line].quantity = j.quantity]
    BY <1>3 DEF Written
  <2>2. j.quantity \in 1..MaxQuantity /\ j.line \in DOMAIN lines
    BY <1>1, <1>3, JobFields DEF RowsExist
  <2> QED
    BY <1>1, <1>3, <2>1, <2>2 DEF LineRecord
<1>4. CASE j.op = "delete"
  <2>1. new = [i \in DOMAIN lines \ {j.line} |-> lines[i]]
    BY <1>4 DEF Written, Without
  <2> QED
    BY <1>1, <1>4, <2>1
<1>5. CASE j.op = "switch"
  <2>1. new = [lines EXCEPT ![j.line] = [@ EXCEPT !.variant = j.variant, !.design = NoDesign,
                                           !.personalized = j.variant \in Personalizable]]
    BY <1>5 DEF Written
  <2>2. j.variant \in Variant /\ j.line \in DOMAIN lines
    BY <1>1, <1>5, JobFields DEF RowsExist
  <2>3. /\ DOMAIN new = DOMAIN lines
        /\ \A i \in DOMAIN lines \ {j.line} : new[i] = lines[i]
        /\ new[j.line] = [lines[j.line] EXCEPT !.variant = j.variant, !.design = NoDesign,
                                              !.personalized = j.variant \in Personalizable]
    BY <2>1, <2>2
  <2>4. lines[j.line] \in LineRecord /\ (j.variant \in Personalizable) \in BOOLEAN
    BY <1>1, <2>2
  <2>5. new[j.line] \in LineRecord /\ new[j.line].quantity = lines[j.line].quantity
    BY <2>2, <2>3, <2>4 DEF LineRecord
  <2> HIDE DEF j, new
  <2>6. /\ \A i \in DOMAIN lines : new[i] \in LineRecord /\ new[i].quantity = lines[i].quantity
        /\ DOMAIN new = DOMAIN lines
    BY <1>1, <2>3, <2>5
  <2> QED
    BY <1>1, <1>5, <2>6 DEF j, new
<1>6. CASE j.op = "move"
  <2>1. new = [lines EXCEPT ![j.line] = [@ EXCEPT !.variant = j.variant,
                                                  !.quantity = j.quantity]]
    BY <1>6 DEF Written
  <2>2. j.variant \in Variant /\ j.quantity \in 1..MaxQuantity /\ j.line \in DOMAIN lines
    BY <1>1, <1>6, JobFields DEF RowsExist
  <2>3. /\ DOMAIN new = DOMAIN lines
        /\ \A i \in DOMAIN lines \ {j.line} : new[i] = lines[i]
        /\ new[j.line] = [lines[j.line] EXCEPT !.variant = j.variant, !.quantity = j.quantity]
    BY <2>1, <2>2
  <2>4. lines[j.line] \in LineRecord
    BY <1>1, <2>2
  <2>5. new[j.line] \in LineRecord /\ new[j.line].quantity = j.quantity
    BY <2>2, <2>3, <2>4 DEF LineRecord
  <2> HIDE DEF j, new
  <2>6. /\ \A i \in DOMAIN lines : new[i] \in LineRecord
        /\ \A i \in DOMAIN lines \ {j.line} : new[i].quantity = lines[i].quantity
        /\ DOMAIN new = DOMAIN lines
    BY <1>1, <2>3, <2>5
  <2> QED
    BY <1>1, <1>6, <2>5, <2>6 DEF j, new
<1>7. CASE j.op = "merge"
  <2>1. new = [k \in DOMAIN lines \ {j.line} |->
                 IF k = j.into THEN [lines[k] EXCEPT !.quantity = j.quantity] ELSE lines[k]]
    BY <1>7 DEF Written, Merged
  <2>2. j.quantity \in 1..MaxQuantity /\ {j.line, j.into} \subseteq DOMAIN lines
    BY <1>1, <1>7, JobFields DEF RowsExist
  <2> QED
    BY <1>1, <1>7, <2>1, <2>2 DEF LineRecord
<1>8. CASE j.op = "attach"
  <2>1. new = [lines EXCEPT ![j.line].design = j.design]
    BY <1>8 DEF Written
  <2>2. j.design \in Design \cup {NoDesign} /\ j.line \in DOMAIN lines
    BY <1>1, <1>8, JobFields DEF RowsExist
  <2> QED
    BY <1>1, <1>8, <2>1, <2>2 DEF LineRecord
<1> HIDE DEF j, new
<1>9. j.op \in {"create", "quantity", "delete", "switch", "move", "merge", "attach"}
  BY <1>1, JobFields DEF j
<1> QED
  BY <1>2, <1>3, <1>4, <1>5, <1>6, <1>7, <1>8, <1>9 DEF j, new

LEMMA CappedFits ==
  ASSUME NEW n \in Nat \ {0}
  PROVE  Capped(n) \in 1..MaxQuantity /\ Capped(n) <= n
BY DEF Capped

LEMMA LineType ==
  ASSUME CartTypeOK, NEW i \in DOMAIN lines
  PROVE  /\ i \in Request /\ lines[i].variant \in Variant
         /\ lines[i].quantity \in 1..MaxQuantity /\ lines[i].quantity \in Nat \ {0}
BY DEF CartTypeOK, LineRecord

(* Every handler that reads the lines decides on a write that fits them.   *)
LEMMA ReadFits ==
  ASSUME CartTypeOK, NEW r \in Request, Read(r)
  PROVE  \E what \in Job : Plan(r, what) /\ FitsLines(what)
<1>1. ASSUME NEW v \in Variant, NEW n \in Amounts, AddPlain(r, v, n)
      PROVE  \E what \in Job : Plan(r, what) /\ FitsLines(what)
  <2>1. CASE Plan(r, [op |-> "create", variant |-> v, quantity |-> n, design |-> NoDesign,
                      asked |-> n])
    <3> DEFINE what == [op |-> "create", variant |-> v, quantity |-> n, design |-> NoDesign,
                        asked |-> n]
    <3>1. what \in Creations
      BY DEF Creations
    <3>2. FitsLines(what)
      BY DEF FitsLines
    <3> QED
      BY <2>1, <3>1, <3>2 DEF Job
  <2>2. ASSUME NEW i \in PlainLines(v), lines[i].quantity + n <= MaxQuantity,
               Plan(r, [op |-> "quantity", line |-> i, quantity |-> lines[i].quantity + n,
                        asked |-> n])
        PROVE  \E what \in Job : Plan(r, what) /\ FitsLines(what)
    <3> DEFINE what == [op |-> "quantity", line |-> i, quantity |-> lines[i].quantity + n,
                        asked |-> n]
    <3>1. i \in DOMAIN lines
      BY DEF PlainLines
    <3>2. i \in Request /\ lines[i].quantity + n \in 1..MaxQuantity
      BY <2>2, <3>1, LineType
    <3>3. what \in Resizings
      BY <3>2 DEF Resizings
    <3>4. FitsLines(what)
      BY <3>1, <3>2 DEF FitsLines
    <3> QED
      BY <2>2, <3>3, <3>4 DEF Job
  <2> QED
    BY <1>1, <2>1, <2>2 DEF AddPlain
<1>2. ASSUME NEW v \in Variant, NEW n \in Amounts, NEW d \in Design \cup {NoDesign},
             AddPersonalized(r, v, n, d)
      PROVE  \E what \in Job : Plan(r, what) /\ FitsLines(what)
  <2> DEFINE what == [op |-> "create", variant |-> v, quantity |-> n, design |-> d, asked |-> n]
  <2>1. what \in Creations
    BY DEF Creations
  <2>2. FitsLines(what)
    BY DEF FitsLines
  <2> QED
    BY <1>2, <2>1, <2>2 DEF AddPersonalized, Job
<1>3. ASSUME NEW i \in DOMAIN lines, NEW n \in Amounts \cup {0}, Update(r, i, n)
      PROVE  \E what \in Job : Plan(r, what) /\ FitsLines(what)
  <2>1. CASE n = 0
    <3> DEFINE what == [op |-> "delete", line |-> i, asked |-> 0]
    <3>1. what \in Deletions /\ FitsLines(what)
      BY LineType DEF Deletions, FitsLines
    <3> QED
      BY <1>3, <2>1, <3>1 DEF Update, Job
  <2>2. CASE n # 0
    <3> DEFINE what == [op |-> "quantity", line |-> i, quantity |-> n, asked |-> n]
    <3>1. n \in Amounts /\ n \in 1..MaxQuantity
      BY <2>2
    <3>2. what \in Resizings
      BY <3>1, LineType DEF Resizings
    <3>3. FitsLines(what)
      BY <3>1, LineType DEF FitsLines
    <3> QED
      BY <1>3, <2>2, <3>2, <3>3 DEF Update, Job
  <2> QED
    BY <2>1, <2>2
<1>4. ASSUME NEW i \in DOMAIN lines, NEW v \in Variant, Replace(r, i, v)
      PROVE  \E what \in Job : Plan(r, what) /\ FitsLines(what)
  <2>1. CASE Plan(r, [op |-> "switch", line |-> i, variant |-> v, asked |-> 0])
    <3> DEFINE what == [op |-> "switch", line |-> i, variant |-> v, asked |-> 0]
    <3>1. what \in Switches /\ FitsLines(what)
      BY LineType DEF Switches, FitsLines
    <3> QED
      BY <2>1, <3>1 DEF Job
  <2>2. CASE Plan(r, [op |-> "move", line |-> i, variant |-> v,
                      quantity |-> Capped(lines[i].quantity), asked |-> 0])
    <3> DEFINE what == [op |-> "move", line |-> i, variant |-> v,
                        quantity |-> Capped(lines[i].quantity), asked |-> 0]
    <3>1. Capped(lines[i].quantity) \in 1..MaxQuantity
          /\ Capped(lines[i].quantity) <= lines[i].quantity
      BY LineType, CappedFits
    <3>2. what \in Moves
      BY <3>1, LineType DEF Moves
    <3>3. FitsLines(what)
      BY <3>1 DEF FitsLines
    <3> QED
      BY <2>2, <3>2, <3>3 DEF Job
  <2>3. ASSUME NEW j \in PlainLines(v), v # lines[i].variant,
               Plan(r, [op |-> "merge", line |-> i, into |-> j, asked |-> 0,
                        quantity |-> Capped(lines[j].quantity + lines[i].quantity)])
        PROVE  \E what \in Job : Plan(r, what) /\ FitsLines(what)
    <3> DEFINE n == lines[j].quantity + lines[i].quantity
               what == [op |-> "merge", line |-> i, into |-> j, asked |-> 0,
                        quantity |-> Capped(n)]
    <3>1. j \in DOMAIN lines /\ j # i
      BY <2>3 DEF PlainLines
    <3>2. /\ i \in Request /\ j \in Request /\ n \in Nat \ {0}
          /\ lines[i].quantity \in Nat /\ lines[j].quantity \in Nat
      BY <3>1, LineType
    <3>3. Capped(n) \in 1..MaxQuantity /\ Capped(n) <= n
      BY <3>2, CappedFits
    <3>4. what \in Mergers
      BY <3>2, <3>3 DEF Mergers
    <3>5. FitsLines(what)
      BY <3>1, <3>2, <3>3 DEF FitsLines
    <3> QED
      BY <2>3, <3>4, <3>5 DEF Job
  <2> QED
    BY <1>4, <2>1, <2>2, <2>3 DEF Replace
<1>5. ASSUME NEW i \in DOMAIN lines, NEW d \in Design \cup {NoDesign},
             Plan(r, [op |-> "attach", line |-> i, design |-> d, asked |-> 0])
      PROVE  \E what \in Job : Plan(r, what) /\ FitsLines(what)
  <2> DEFINE what == [op |-> "attach", line |-> i, design |-> d, asked |-> 0]
  <2>1. what \in Attachments /\ FitsLines(what)
    BY LineType DEF Attachments, FitsLines
  <2> QED
    BY <1>5, <2>1 DEF Job
<1> QED
  BY <1>1, <1>2, <1>3, <1>4, <1>5 DEF Read, AttachDesign, Detach

(* So does a creation that folds its quantity into the line that won.      *)
LEMMA WinnerFits ==
  ASSUME CartTypeOK, Named, NEW r \in Request, FindWinner(r)
  PROVE  \/ step' = [step EXCEPT ![r] = "done"] /\ UNCHANGED job
         \/ \E what \in Job :
              /\ FitsLines(what) /\ what.asked = job[r].asked
              /\ step' = [step EXCEPT ![r] = "write"]
              /\ job' = [job EXCEPT ![r] = what]
<1> SUFFICES ASSUME NEW i \in PlainLines(job[r].variant),
                    step' = [step EXCEPT ![r] = "write"],
                    job' = [job EXCEPT ![r] =
                      [op |-> "quantity", line |-> i, asked |-> @.asked,
                       quantity |-> Capped(lines[i].quantity + @.quantity)]]
             PROVE  \E what \in Job :
                      /\ FitsLines(what) /\ what.asked = job[r].asked
                      /\ step' = [step EXCEPT ![r] = "write"]
                      /\ job' = [job EXCEPT ![r] = what]
  BY DEF FindWinner
<1> DEFINE n == lines[i].quantity + job[r].quantity
           what == [op |-> "quantity", line |-> i, asked |-> job[r].asked,
                    quantity |-> Capped(n)]
<1>1. i \in DOMAIN lines
  BY DEF PlainLines
<1>2. job[r] \in Creations
  <2>1. job[r] \in Job /\ job[r].op = "create"
    BY DEF CartTypeOK, Named, FindWinner
  <2> QED
    BY <2>1, CreationsOnly
<1>3. /\ job[r].quantity = job[r].asked /\ job[r].asked \in Amounts
      /\ job[r].quantity \in Nat \ {0}
  <2>1. job[r].quantity = job[r].asked
    BY DEF Named, FindWinner
  <2>2. job[r].asked \in Amounts
    BY <1>2 DEF Creations
  <2> QED
    BY <2>1, <2>2
<1>4. i \in Request /\ lines[i].quantity \in Nat \ {0} /\ n \in Nat \ {0}
  BY <1>1, <1>3, LineType
<1>5. Capped(n) \in 1..MaxQuantity /\ Capped(n) <= n
  BY <1>4, CappedFits
<1>6. what \in Resizings
  BY <1>3, <1>4, <1>5 DEF Resizings
<1>7. FitsLines(what)
  BY <1>1, <1>3, <1>5 DEF FitsLines
<1>8. job' = [job EXCEPT ![r] = what]
  BY DEF CartTypeOK
<1> QED
  BY <1>6, <1>7, <1>8 DEF Job

(* A request that has brought nothing yet may be about to bring something: *)
(* what was covered stays covered.                                         *)
LEMMA StaysCovered ==
  ASSUME NEW jobs, NEW later, NEW R, NEW n, Covers(jobs, R, n),
         \A r \in R : later[r].asked = jobs[r].asked
  PROVE  Covers(later, R, n)
BY SameAsked DEF Covers

(* A line covers what a handler that has just read it is about to write.   *)
LEMMA FittingIsCovered ==
  ASSUME CartTypeOK, NEW from \in [Request -> SUBSET Request], OwedTo(from),
         NEW r \in Request \ Answered, NEW what \in Job, FitsLines(what),
         NEW jobs, \A q \in Request : jobs[q].asked \in Nat, jobs[r] = what,
         \A q \in Answered : jobs[q].asked = job[q].asked
  PROVE  /\ what.op = "quantity" => Covers(jobs, from[what.line] \cup {r}, what.quantity)
         /\ what.op = "move" => Covers(jobs, from[what.line], what.quantity)
         /\ what.op = "merge" => Covers(jobs, from[what.line] \cup from[what.into], what.quantity)
<1>1. ASSUME NEW i \in DOMAIN lines
      PROVE  /\ from[i] \in SUBSET Request /\ from[i] \subseteq Answered
             /\ lines[i].quantity \in Nat /\ Covers(jobs, from[i], lines[i].quantity)
  <2>1. i \in Request /\ lines[i].quantity \in Nat
    BY LineType
  <2>2. from[i] \subseteq Answered /\ Covers(job, from[i], lines[i].quantity)
    BY DEF OwedTo
  <2>3. \A q \in from[i] : jobs[q].asked = job[q].asked
    BY <2>2
  <2> QED
    BY <2>1, <2>2, <2>3, StaysCovered
<1>2. what.op \in {"quantity", "move", "merge"} =>
        what.quantity \in Nat /\ what.line \in DOMAIN lines
  BY JobFields DEF FitsLines
<1>3. CASE what.op = "quantity"
  <2> DEFINE i == what.line
  <2>1. i \in DOMAIN lines /\ what.quantity <= lines[i].quantity + what.asked
    BY <1>3 DEF FitsLines
  <2>2. Covers(jobs, {r}, jobs[r].asked)
    BY CoversItself
  <2>3. from[i] \cap {r} = {}
    BY <1>1, <2>1
  <2>4. what.asked \in Nat
    BY JobFields
  <2>5. Covers(jobs, from[i] \cup {r}, lines[i].quantity + what.asked)
    BY <1>1, <2>1, <2>2, <2>3, <2>4, CoversSum
  <2>6. Covers(jobs, from[i] \cup {r}, what.quantity)
    <3>1. from[i] \cup {r} \in SUBSET Request
      BY <1>1, <2>1
    <3>2. lines[i].quantity + what.asked \in Nat
      BY <1>1, <2>1, <2>4
    <3> QED
      BY <1>2, <1>3, <2>1, <2>5, <3>1, <3>2, CoversMore
  <2> QED
    BY <1>3, <2>6
<1>4. CASE what.op = "move"
  <2>1. what.line \in DOMAIN lines /\ what.quantity <= lines[what.line].quantity
    BY <1>4 DEF FitsLines
  <2>2. Covers(jobs, from[what.line], what.quantity)
    BY <1>1, <1>2, <1>4, <2>1, CoversMore
  <2> QED
    BY <1>4, <2>2
<1>5. CASE what.op = "merge"
  <2> DEFINE i == what.line
             j == what.into
  <2>1. /\ i \in DOMAIN lines /\ j \in DOMAIN lines /\ i # j
        /\ what.quantity <= lines[i].quantity + lines[j].quantity
    BY <1>5 DEF FitsLines
  <2>2. from[i] \cap from[j] = {}
    BY <2>1 DEF OwedTo
  <2>3. Covers(jobs, from[i] \cup from[j], lines[i].quantity + lines[j].quantity)
    BY <1>1, <2>1, <2>2, CoversSum
  <2>4. Covers(jobs, from[i] \cup from[j], what.quantity)
    <3>1. from[i] \cup from[j] \in SUBSET Request
      BY <1>1, <2>1
    <3>2. lines[i].quantity + lines[j].quantity \in Nat
      BY <1>1, <2>1
    <3> QED
      BY <1>2, <1>5, <2>1, <2>3, <3>1, <3>2, CoversMore
  <2> QED
    BY <1>5, <2>4
<1> QED
  BY <1>3, <1>4, <1>5

(* While the lines stay, what they owe stays, whoever makes up his mind.   *)
LEMMA TracedWhileLinesStay ==
  ASSUME CartTypeOK, Named, NEW from \in [Request -> SUBSET Request], Traced(from),
         NEW r \in Request \ Answered, CartTypeOK', UNCHANGED lines,
         \A q \in Request \ {r} : job'[q] = job[q] /\ step'[q] = step[q],
         \/ job'[r] = job[r] /\ step'[r] # "write"
         \/ \E what \in Job : FitsLines(what) /\ job'[r] = what
  PROVE  Traced(from)'
<1>1. Answered \subseteq Answered' /\ r \notin Answered
  BY DEF Answered
<1>2. \A q \in Answered : job'[q].asked = job[q].asked
  BY DEF Answered
<1>3. OwedTo(from)'
  <2>1. ASSUME NEW i \in DOMAIN lines
        PROVE  Covers(job', from[i], lines[i].quantity)
    <3>1. from[i] \subseteq Answered /\ Covers(job, from[i], lines[i].quantity)
      BY DEF Traced, OwedTo
    <3> QED
      BY <1>2, <3>1, StaysCovered
  <2> QED
    BY <1>1, <2>1 DEF Traced, OwedTo
<1>4. \A q \in Request : job'[q].asked \in Nat
  <2>1. \A q \in Request : job'[q] \in Job
    BY DEF CartTypeOK
  <2> QED
    BY <2>1, JobFields
<1>5. ASSUME NEW q \in Request \ {r}
      PROVE  CoveredBy(from, q)'
  <2> SUFFICES ASSUME step[q] = "write" PROVE CoveredBy(from, q)'
    BY DEF CoveredBy
  <2>1. CoveredBy(from, q)
    BY DEF Traced
  <2>2. \A i \in DOMAIN lines : from[i] \subseteq Answered
    BY DEF Traced, OwedTo
  <2>3. \A p \in Answered \cup {q} : job'[p].asked = job[p].asked
    BY <1>2
  <2>4. ASSUME NEW R \in SUBSET (Answered \cup {q}), NEW n, Covers(job, R, n)
        PROVE  Covers(job', R, n)
    BY <2>3, <2>4, StaysCovered
  <2>5. job'[q] = job[q] /\ step'[q] = step[q]
    OBVIOUS
  <2> QED
    BY <1>1, <2>1, <2>2, <2>4, <2>5 DEF CoveredBy
<1>6. CoveredBy(from, r)'
  <2>1. CASE step'[r] # "write"
    BY <2>1 DEF CoveredBy
  <2>2. ASSUME NEW what \in Job, FitsLines(what), job'[r] = what
        PROVE  CoveredBy(from, r)'
    <3>1. /\ what.op = "quantity" => Covers(job', from[what.line] \cup {r}, what.quantity)
          /\ what.op = "move" => Covers(job', from[what.line], what.quantity)
          /\ what.op = "merge" =>
               Covers(job', from[what.line] \cup from[what.into], what.quantity)
      BY <1>2, <1>4, <2>2, FittingIsCovered DEF Traced
    <3>2. DOMAIN lines \subseteq Answered'
      BY <1>1 DEF Named
    <3>3. /\ what.op # "create" => what.line \in DOMAIN lines
          /\ what.op = "merge" => what.into \in DOMAIN lines /\ what.into # what.line
      BY <2>2 DEF FitsLines
    <3> QED
      BY <2>2, <3>1, <3>2, <3>3 DEF CoveredBy
  <2> QED
    BY <2>1, <2>2
<1> QED
  BY <1>3, <1>5, <1>6 DEF Traced

(* Jobs that were covered stay covered by lines that owe no fewer.         *)
LEMMA TracedByMore ==
  ASSUME CartTypeOK, Named, NEW from \in [Request -> SUBSET Request], Traced(from),
         NEW to \in [Request -> SUBSET Request], NEW r \in Request \ Answered,
         step' = [step EXCEPT ![r] = "done"], job' = job,
         DOMAIN lines' \subseteq DOMAIN lines \cup {r},
         \A i \in DOMAIN lines \cap DOMAIN lines' : from[i] \subseteq to[i],
         \A i \in DOMAIN lines' :
           to[i] \subseteq Answered \cup {r} /\ Covers(job, to[i], lines'[i].quantity),
         \A i, j \in DOMAIN lines' : i # j => to[i] \cap to[j] = {}
  PROVE  Traced(to)'
<1>1. Answered' = Answered \cup {r}
  BY DEF Answered, CartTypeOK
<1>2. OwedTo(to)'
  BY <1>1 DEF OwedTo
<1>3. \A p \in Request : job[p].asked \in Nat
  BY AskedIsNat, Zenon
<1>4. ASSUME NEW q \in Request
      PROVE  CoveredBy(to, q)'
  <2>1. step'[r] = "done"
    BY DEF CartTypeOK
  <2> SUFFICES ASSUME q # r, step[q] = "write" PROVE CoveredBy(to, q)'
    BY <2>1 DEF CoveredBy, CartTypeOK
  <2>2. CoveredBy(from, q)
    BY DEF Traced
  <2>3. DOMAIN lines \subseteq Request
    BY DEF CartTypeOK
  <2>4. ASSUME NEW i \in Answered, i \in DOMAIN lines'
        PROVE  i \in DOMAIN lines /\ from[i] \subseteq to[i] /\ i \in Request
    BY <2>3, <2>4
  <2>5. ASSUME NEW R, NEW S \in SUBSET Request, R \subseteq S,
               job[q].op \in {"quantity", "move", "merge"}, Covers(job, R, job[q].quantity)
        PROVE  Covers(job, S, job[q].quantity)
    <3>1. job[q] \in Job
      BY DEF CartTypeOK
    <3>2. job[q].quantity \in Nat
      BY <2>5, <3>1, JobFields
    <3> QED
      BY <1>3, <2>5, <3>2, CoversMore
  <2> DEFINE j == job[q]
  <2>6. j.op # "create" => j.line \in Answered
    BY <2>2 DEF CoveredBy
  <2>7. ASSUME j.op = "quantity", j.line \in DOMAIN lines'
        PROVE  Covers(job, to[j.line] \cup {q}, j.quantity)
    <3>1. /\ j.line \in DOMAIN lines /\ from[j.line] \subseteq to[j.line] /\ j.line \in Request
      BY <2>4, <2>6, <2>7
    <3>2. Covers(job, from[j.line] \cup {q}, j.quantity)
      BY <2>2, <2>7, <3>1 DEF CoveredBy
    <3>3. to[j.line] \cup {q} \in SUBSET Request
          /\ from[j.line] \cup {q} \subseteq to[j.line] \cup {q}
      BY <3>1
    <3> DEFINE R == from[j.line] \cup {q}
               S == to[j.line] \cup {q}
    <3>4. S \in SUBSET Request /\ R \subseteq S /\ Covers(job, R, j.quantity)
      BY <3>2, <3>3
    <3> HIDE DEF R, S
    <3>5. Covers(job, S, j.quantity)
      BY <2>5, <2>7, <3>4
    <3> QED
      BY <3>5 DEF S
  <2>8. ASSUME j.op = "move", j.line \in DOMAIN lines'
        PROVE  Covers(job, to[j.line], j.quantity)
    <3>1. /\ j.line \in DOMAIN lines /\ from[j.line] \subseteq to[j.line] /\ j.line \in Request
      BY <2>4, <2>6, <2>8
    <3>2. Covers(job, from[j.line], j.quantity)
      BY <2>2, <2>8, <3>1 DEF CoveredBy
    <3> QED
      BY <2>5, <2>8, <3>1, <3>2
  <2>9. ASSUME j.op = "merge"
        PROVE  /\ j.into \in Answered /\ j.into # j.line
               /\ {j.line, j.into} \subseteq DOMAIN lines' =>
                    Covers(job, to[j.line] \cup to[j.into], j.quantity)
    <3>1. j.into \in Answered /\ j.into # j.line
      BY <2>2, <2>9 DEF CoveredBy
    <3>2. ASSUME {j.line, j.into} \subseteq DOMAIN lines'
          PROVE  Covers(job, to[j.line] \cup to[j.into], j.quantity)
      <4>1. /\ j.line \in DOMAIN lines /\ from[j.line] \subseteq to[j.line] /\ j.line \in Request
            /\ j.into \in DOMAIN lines /\ from[j.into] \subseteq to[j.into] /\ j.into \in Request
        BY <2>4, <2>6, <2>9, <3>1, <3>2
      <4>2. Covers(job, from[j.line] \cup from[j.into], j.quantity)
        BY <2>2, <2>9, <4>1 DEF CoveredBy
      <4>3. /\ to[j.line] \cup to[j.into] \in SUBSET Request
            /\ from[j.line] \cup from[j.into] \subseteq to[j.line] \cup to[j.into]
        BY <4>1
      <4> DEFINE R == from[j.line] \cup from[j.into]
                 S == to[j.line] \cup to[j.into]
      <4>4. S \in SUBSET Request /\ R \subseteq S /\ Covers(job, R, j.quantity)
        BY <4>2, <4>3
      <4> HIDE DEF R, S
      <4>5. Covers(job, S, j.quantity)
        BY <2>5, <2>9, <4>4
      <4> QED
        BY <4>5 DEF S
    <3> QED
      BY <3>1, <3>2
  <2> QED
    BY <1>1, <2>6, <2>7, <2>8, <2>9 DEF CoveredBy
<1> QED
  BY <1>2, <1>4 DEF Traced

(* A write leaves every line covered: a new one by its request, a resized  *)
(* one by the request as well, a merged one by what both lines owed.       *)
LEMMA WriteTraces ==
  ASSUME CartTypeOK, Named, NEW from \in [Request -> SUBSET Request], Traced(from),
         NEW r \in Request, Write(r)
  PROVE  \E to \in [Request -> SUBSET Request] : Traced(to)'
<1> DEFINE j == job[r]
           D == DOMAIN lines
<1>1. /\ r \notin Answered /\ j \in Job /\ j.op # "none" /\ RowsExist(r)
      /\ step' = [step EXCEPT ![r] = "done"] /\ job' = job /\ lines' = Written(r)
  BY DEF Write, Answered, Named, CartTypeOK
<1>2. CoveredBy(from, r) /\ step[r] = "write"
  BY DEF Traced, Write
<1>3. D \subseteq Request /\ D \subseteq Answered
  BY DEF CartTypeOK, Named
<1>4. ASSUME NEW i \in D
      PROVE  from[i] \subseteq Answered /\ Covers(job, from[i], lines[i].quantity)
  BY DEF Traced, OwedTo
<1>5. \A i, k \in D : i # k => from[i] \cap from[k] = {}
  BY DEF Traced, OwedTo
<1>6. CASE j.op = "create"
  <2> DEFINE to == [from EXCEPT ![r] = {r}]
  <2>1. /\ DOMAIN lines' = D \cup {r} /\ lines'[r].quantity = j.asked
        /\ \A i \in D \ {r} : lines'[i].quantity = lines[i].quantity
    <3>1. j.quantity = j.asked
      BY <1>6 DEF Named
    <3> QED
      BY <1>1, <1>6, <3>1, WrittenQuantities
  <2>2. Covers(job, {r}, j.asked)
    BY <1>1, JobFields, CoversItself
  <2>3. /\ to \in [Request -> SUBSET Request] /\ to[r] = {r}
        /\ \A i \in D : to[i] = from[i] /\ i # r
    BY <1>1, <1>3
  <2> HIDE DEF to, j, D
  <2>4. \A i \in D \cup {r} :
          to[i] \subseteq Answered \cup {r} /\ Covers(job, to[i], lines'[i].quantity)
    BY <1>4, <2>1, <2>2, <2>3
  <2>5. \A i, k \in D \cup {r} : i # k => to[i] \cap to[k] = {}
    BY <1>1, <1>4, <1>5, <2>3
  <2>6. Traced(to)'
    BY <1>1, <2>1, <2>3, <2>4, <2>5, TracedByMore DEF D
  <2> QED
    BY <2>3, <2>6
<1>7. CASE j.op = "quantity"
  <2>1. j.line \in D
    BY <1>1, <1>7 DEF RowsExist
  <2>2. PICK i \in Request : i = j.line /\ i \in D
    BY <1>3, <2>1
  <2> DEFINE to == [from EXCEPT ![i] = @ \cup {r}]
  <2>3. /\ DOMAIN lines' = D /\ lines'[i].quantity = j.quantity
        /\ \A k \in D \ {i} : lines'[k].quantity = lines[k].quantity
    BY <1>1, <1>7, <2>2, WrittenQuantities
  <2>4. Covers(job, from[i] \cup {r}, j.quantity)
    BY <1>2, <1>7, <2>2 DEF CoveredBy
  <2>5. /\ to \in [Request -> SUBSET Request] /\ to[i] = from[i] \cup {r}
        /\ \A k \in D \ {i} : to[k] = from[k]
    BY <1>3, <2>2
  <2> HIDE DEF to, j, D
  <2>6. \A k \in D : to[k] \subseteq Answered \cup {r} /\ Covers(job, to[k], lines'[k].quantity)
    BY <1>4, <2>2, <2>3, <2>4, <2>5
  <2>7. \A k, l \in D : k # l => to[k] \cap to[l] = {}
    BY <1>1, <1>4, <1>5, <2>5
  <2>8. \A k \in D : from[k] \subseteq to[k]
    BY <2>5
  <2>9. /\ DOMAIN lines' \subseteq DOMAIN lines \cup {r}
        /\ \A k \in DOMAIN lines \cap DOMAIN lines' : from[k] \subseteq to[k]
        /\ \A k \in DOMAIN lines' :
             to[k] \subseteq Answered \cup {r} /\ Covers(job, to[k], lines'[k].quantity)
        /\ \A k, l \in DOMAIN lines' : k # l => to[k] \cap to[l] = {}
    BY <2>3, <2>6, <2>7, <2>8 DEF D
  <2>10. Traced(to)'
    BY <1>1, <2>5, <2>9, TracedByMore
  <2> QED
    BY <2>5, <2>10
<1>8. CASE j.op \in {"move", "switch", "attach", "delete"}
  <2>1. j.op = "move" => j.line \in D
    BY <1>1 DEF RowsExist
  <2>2. /\ DOMAIN lines' \subseteq D
        /\ j.op = "move" => lines'[j.line].quantity = j.quantity
        /\ \A i \in DOMAIN lines' :
             (j.op = "move" => i # j.line) => lines'[i].quantity = lines[i].quantity
    <3>1. CASE j.op = "move"
      <4>1. /\ DOMAIN lines' = D /\ lines'[j.line].quantity = j.quantity
            /\ \A i \in D \ {j.line} : lines'[i].quantity = lines[i].quantity
        BY <1>1, <3>1, WrittenQuantities
      <4> QED
        BY <3>1, <4>1
    <3>2. CASE j.op \in {"switch", "attach"}
      <4>1. DOMAIN lines' = D /\ \A i \in D : lines'[i].quantity = lines[i].quantity
        BY <1>1, <3>2, WrittenQuantities
      <4> QED
        BY <3>2, <4>1
    <3>3. CASE j.op = "delete"
      <4>1. /\ DOMAIN lines' = D \ {j.line}
            /\ \A i \in DOMAIN lines' : lines'[i].quantity = lines[i].quantity
        BY <1>1, <3>3, WrittenQuantities
      <4> QED
        BY <3>3, <4>1
    <3> QED
      BY <1>8, <3>1, <3>2, <3>3
  <2>3. j.op = "move" => Covers(job, from[j.line], j.quantity)
    BY <1>2, <2>1 DEF CoveredBy
  <2> HIDE DEF j, D
  <2>4. \A i \in DOMAIN lines' :
          from[i] \subseteq Answered \cup {r} /\ Covers(job, from[i], lines'[i].quantity)
    BY <1>4, <2>2, <2>3
  <2>5. \A i, k \in DOMAIN lines' : i # k => from[i] \cap from[k] = {}
    BY <1>5, <2>2
  <2>6. Traced(from)'
    BY <1>1, <2>2, <2>4, <2>5, TracedByMore DEF D
  <2> QED
    BY <2>6
<1>9. CASE j.op = "merge"
  <2>1. j.into # j.line /\ {j.line, j.into} \subseteq D
    BY <1>1, <1>2, <1>9 DEF CoveredBy, RowsExist
  <2>2. PICK i \in Request, k \in Request : i = j.line /\ k = j.into
    BY <1>3, <2>1
  <2> DEFINE to == [from EXCEPT ![k] = from[i] \cup from[k]]
  <2>3. /\ DOMAIN lines' = D \ {i} /\ lines'[k].quantity = j.quantity
        /\ \A l \in D \ {i, k} : lines'[l].quantity = lines[l].quantity
    <3>1. j.op = "merge" => j.into # j.line
      BY <2>1
    <3>2. /\ DOMAIN lines' = D \ {j.line} /\ lines'[j.into].quantity = j.quantity
          /\ \A l \in DOMAIN lines' \ {j.into} : lines'[l].quantity = lines[l].quantity
      BY <1>1, <1>9, <3>1, WrittenQuantities
    <3> QED
      BY <2>2, <3>2
  <2>4. Covers(job, from[i] \cup from[k], j.quantity)
    BY <1>2, <1>9, <2>1, <2>2 DEF CoveredBy
  <2>5. /\ to \in [Request -> SUBSET Request] /\ to[k] = from[i] \cup from[k]
        /\ \A l \in D \ {k} : to[l] = from[l]
    BY <1>3, <2>2
  <2>6. i \in D /\ k \in D /\ i # k
    BY <2>1, <2>2
  <2> HIDE DEF to, j, D
  <2>7. \A l \in D \ {i} :
          to[l] \subseteq Answered \cup {r} /\ Covers(job, to[l], lines'[l].quantity)
    BY <1>4, <2>3, <2>4, <2>5, <2>6
  <2>8. \A l, m \in D \ {i} : l # m => to[l] \cap to[m] = {}
    BY <1>5, <2>5, <2>6
  <2>9. \A l \in D : from[l] \subseteq to[l]
    BY <2>5
  <2>10. /\ DOMAIN lines' \subseteq DOMAIN lines \cup {r}
         /\ \A l \in DOMAIN lines \cap DOMAIN lines' : from[l] \subseteq to[l]
         /\ \A l \in DOMAIN lines' :
              to[l] \subseteq Answered \cup {r} /\ Covers(job, to[l], lines'[l].quantity)
         /\ \A l, m \in DOMAIN lines' : l # m => to[l] \cap to[m] = {}
    BY <2>3, <2>7, <2>8, <2>9 DEF D
  <2>11. Traced(to)'
    BY <1>1, <2>5, <2>10, TracedByMore
  <2> QED
    BY <2>5, <2>11
<1> QED
  BY <1>1, <1>6, <1>7, <1>8, <1>9, JobFields

(* A handler goes on without a write, decides on one, or writes.           *)
Goes(r) ==
  /\ r \notin Answered
  /\ \E next \in {"admitted", "winner", "done"} :
       /\ step' = [step EXCEPT ![r] = next]
       /\ next = "admitted" => step[r] = "new"
       /\ next = "winner" => step[r] = "write" /\ job[r].op = "create"
  /\ UNCHANGED <<lines, cart, ordered, job>>

Decides(r, what) ==
  /\ r \notin Answered
  /\ FitsLines(what) /\ job[r].asked <= what.asked
  /\ step' = [step EXCEPT ![r] = "write"]
  /\ job' = [job EXCEPT ![r] = what]
  /\ UNCHANGED <<lines, cart, ordered>>

LEMMA HandlerSteps ==
  ASSUME CartTypeOK, Named, NEW r \in Request,
         Admit(r) \/ Read(r) \/ Refuse(r) \/ Write(r) \/ WriteFails(r) \/ FindWinner(r)
  PROVE  Goes(r) \/ Write(r) \/ \E what \in Job : Decides(r, what)
<1>1. CASE Admit(r) \/ Refuse(r)
  BY <1>1 DEF Admit, Refuse, Goes, Answered
<1>2. CASE WriteFails(r)
  BY <1>2 DEF WriteFails, Goes, Answered
<1>3. CASE Read(r)
  <2>1. PICK what \in Job : Plan(r, what) /\ FitsLines(what)
    BY <1>3, ReadFits
  <2>2. job[r].asked = 0
    BY <2>1 DEF Plan, Named
  <2>3. what.asked \in Nat
    BY JobFields
  <2>4. Decides(r, what)
    BY <2>1, <2>2, <2>3 DEF Plan, Decides, Answered
  <2> QED
    BY <2>4
<1>4. CASE FindWinner(r)
  <2>1. r \notin Answered /\ UNCHANGED <<lines, cart, ordered>>
    BY <1>4 DEF FindWinner, Answered
  <2>2. CASE step' = [step EXCEPT ![r] = "done"] /\ UNCHANGED job
    BY <2>1, <2>2 DEF Goes
  <2>3. ASSUME NEW what \in Job, FitsLines(what), what.asked = job[r].asked,
               step' = [step EXCEPT ![r] = "write"], job' = [job EXCEPT ![r] = what]
        PROVE  Decides(r, what)
    <3>1. what.asked <= what.asked
      BY JobFields
    <3> QED
      BY <2>1, <2>3, <3>1 DEF Decides
  <2> QED
    BY <1>4, <2>2, <2>3, WinnerFits
<1> QED
  BY <1>1, <1>2, <1>3, <1>4

(* Types and names are kept.                                               *)
LEMMA StepNames ==
  ASSUME CartTypeOK, Named, NEW from \in [Request -> SUBSET Request], Traced(from),
         [CartNext]_cartVars
  PROVE  CartTypeOK' /\ Named'
<1>1. ASSUME NEW r \in Request, Goes(r)
      PROVE  CartTypeOK' /\ Named'
  <2>1. CartTypeOK'
    BY <1>1 DEF Goes, CartTypeOK
  <2>2. Answered \subseteq Answered'
    BY <1>1 DEF Goes, Answered, CartTypeOK
  <2> QED
    BY <1>1, <2>1, <2>2 DEF Goes, Named, CartTypeOK
<1>2. ASSUME NEW r \in Request, NEW what \in Job, Decides(r, what)
      PROVE  CartTypeOK' /\ Named'
  <2>1. CartTypeOK'
    BY <1>2 DEF Decides, CartTypeOK
  <2>2. Answered \subseteq Answered'
    BY <1>2 DEF Decides, Answered, CartTypeOK
  <2>3. what.op # "none" /\ (what.op = "create" => what.quantity = what.asked)
    BY <1>2 DEF Decides, FitsLines
  <2>4. /\ \A q \in Request \ {r} : step'[q] = step[q] /\ job'[q] = job[q]
        /\ step'[r] = "write" /\ job'[r] = what
        /\ UNCHANGED lines
    BY <1>2 DEF Decides, CartTypeOK
  <2> QED
    BY <2>1, <2>2, <2>3, <2>4 DEF Named
<1>3. ASSUME NEW r \in Request, Write(r)
      PROVE  CartTypeOK' /\ Named'
  <2>1. /\ job[r] \in Job /\ job[r].op # "none" /\ RowsExist(r) /\ lines' = Written(r)
        /\ step' = [step EXCEPT ![r] = "done"] /\ UNCHANGED <<cart, ordered, job>>
    BY <1>3 DEF Write, Named, CartTypeOK
  <2>2. job[r].op = "merge" => job[r].into # job[r].line
    BY <1>3 DEF Write, Traced, CoveredBy
  <2>3. DOMAIN lines' \subseteq Request /\ \A i \in DOMAIN lines' : lines'[i] \in LineRecord
    BY <2>1, <2>2, WrittenQuantities
  <2>4. DOMAIN lines' \subseteq DOMAIN lines \cup {r}
    <3>1. job[r].op \in {"create", "quantity", "delete", "switch", "move", "merge", "attach"}
      BY <2>1, JobFields
    <3> QED
      BY <2>1, <2>2, <3>1, WrittenQuantities
  <2>5. Answered' = Answered \cup {r}
    BY <2>1 DEF Answered, CartTypeOK
  <2>6. CartTypeOK'
    BY <2>1, <2>3 DEF CartTypeOK
  <2> QED
    BY <2>1, <2>4, <2>5, <2>6 DEF Named, CartTypeOK
<1>4. CASE Claim \/ Commit \/ RollBack \/ UNCHANGED cartVars
  BY <1>4 DEF Claim, Commit, RollBack, cartVars, CartTypeOK, Named, Answered
<1> QED
  BY <1>1, <1>2, <1>3, <1>4, HandlerSteps DEF CartNext

(* What lines owe is kept.                                                 *)
LEMMA StepTraces ==
  ASSUME CartTypeOK, Named, NEW from \in [Request -> SUBSET Request], Traced(from),
         [CartNext]_cartVars
  PROVE  \E to \in [Request -> SUBSET Request] : Traced(to)'
<1>1. CartTypeOK'
  BY StepNames
<1>2. ASSUME NEW r \in Request, Goes(r)
      PROVE  Traced(from)'
  <2>1. /\ \A q \in Request \ {r} : job'[q] = job[q] /\ step'[q] = step[q]
        /\ job'[r] = job[r] /\ step'[r] # "write" /\ UNCHANGED lines /\ r \notin Answered
    BY <1>2 DEF Goes, CartTypeOK
  <2> QED
    BY <1>1, <2>1, TracedWhileLinesStay
<1>3. ASSUME NEW r \in Request, NEW what \in Job, Decides(r, what)
      PROVE  Traced(from)'
  <2>1. /\ \A q \in Request \ {r} : job'[q] = job[q] /\ step'[q] = step[q]
        /\ job'[r] = what /\ FitsLines(what) /\ UNCHANGED lines /\ r \notin Answered
    BY <1>3 DEF Decides, CartTypeOK
  <2> QED
    BY <1>1, <2>1, TracedWhileLinesStay
<1>4. ASSUME NEW r \in Request, Write(r)
      PROVE  \E to \in [Request -> SUBSET Request] : Traced(to)'
  BY <1>4, WriteTraces
<1>5. CASE Claim \/ Commit \/ RollBack \/ UNCHANGED cartVars
  <2>1. UNCHANGED <<lines, step, job>>
    BY <1>5 DEF Claim, Commit, RollBack, cartVars
  <2>2. Traced(from)'
    BY <2>1 DEF Traced, OwedTo, CoveredBy, Answered
  <2> QED
    BY <2>2
<1> QED
  BY <1>2, <1>3, <1>4, <1>5, HandlerSteps DEF CartNext

(* What was asked for never becomes less, and an order is made of lines    *)
(* that were covered.                                                      *)
LEMMA StepCoversOrder ==
  ASSUME CartInv, [CartNext]_cartVars
  PROVE  OrderedIsCovered'
<1> DEFINE units(found) == Cardinality(UnitsOf(found))
           asked(jobs) == Cardinality(Asked(jobs, Request))
<1>1. PICK from \in [Request -> SUBSET Request] : Traced(from)
  BY DEF CartInv
<1>2. CartTypeOK /\ Named /\ CartTypeOK'
      /\ units(ordered) \in Nat /\ units(ordered) <= asked(job)
  BY <1>1, StepNames DEF CartInv, OrderedIsCovered
<1>3. units(lines) \in Nat /\ units(lines) <= asked(job)
  BY <1>1, <1>2, LinesAreCovered DEF Traced
<1> SUFFICES units(ordered') \in Nat /\ units(ordered') <= asked(job')
  BY DEF OrderedIsCovered
<1>4. CASE UNCHANGED <<ordered, job>>
  BY <1>2, <1>4
<1>5. ASSUME NEW r \in Request, NEW what \in Job, Decides(r, what)
      PROVE  units(ordered') \in Nat /\ units(ordered') <= asked(job')
  <2>1. (\A q \in Request : job[q].asked \in Nat) /\ \A q \in Request : job'[q].asked \in Nat
    <3>1. \A q \in Request : job'[q] \in Job /\ job[q] \in Job
      BY <1>2 DEF CartTypeOK
    <3> QED
      BY <3>1, JobFields
  <2>2. \A q \in Request : job[q].asked <= job'[q].asked
    BY <1>2, <1>5, <2>1 DEF Decides, CartTypeOK
  <2>3. Asked(job, Request) \in SUBSET Asked(job', Request)
    <3>1. \A q \in Request : (1 .. job[q].asked) \subseteq (1 .. job'[q].asked)
      BY <2>1, <2>2
    <3> QED
      BY <3>1 DEF Asked
  <2>4. IsFiniteSet(Asked(job', Request)) /\ asked(job') \in Nat
    BY <2>1, AskedFinite
  <2>5. IsFiniteSet(Asked(job, Request)) /\ asked(job) <= asked(job')
    BY <2>3, <2>4, FS_Subset
  <2>6. asked(job) \in Nat
    BY <2>5, FS_CardinalityType
  <2>7. ordered' = ordered
    BY <1>5 DEF Decides
  <2> HIDE DEF asked
  <2> QED
    BY <1>2, <2>4, <2>5, <2>6, <2>7
<1>6. CASE Claim
  BY <1>3, <1>6 DEF Claim
<1>7. CASE RollBack
  <2>1. DOMAIN ordered' = {} /\ job' = job
    BY <1>7 DEF RollBack
  <2>2. units(ordered') = 0
    <3>1. UnitsOf(ordered') = {}
      BY <2>1 DEF UnitsOf
    <3> QED
      BY <3>1, FS_EmptySet
  <2>3. asked(job) \in Nat
    BY <1>2, AskedIsNat, AskedFinite
  <2> QED
    BY <2>1, <2>2, <2>3
<1> QED
  <2>1. ASSUME NEW r \in Request, Goes(r) \/ Write(r)
        PROVE  UNCHANGED <<ordered, job>>
    BY <2>1 DEF Goes, Write
  <2>2. Commit \/ UNCHANGED cartVars => UNCHANGED <<ordered, job>>
    BY DEF Commit, cartVars
  <2> QED
    BY <1>2, <1>4, <1>5, <1>6, <1>7, <2>1, <2>2, HandlerSteps DEF CartNext

LEMMA CartInitInv == CartInit => CartInv
<1> SUFFICES ASSUME CartInit PROVE CartInv
  OBVIOUS
<1>1. CartTypeOK
  BY DEF CartInit, CartTypeOK, Job
<1>2. Named
  BY DEF CartInit, Named, NoJob
<1>3. OrderedIsCovered
  <2>1. UnitsOf(ordered) = {}
    BY DEF CartInit, UnitsOf
  <2>2. Cardinality(UnitsOf(ordered)) = 0
    BY <2>1, FS_EmptySet
  <2>3. \A r \in Request : job[r].asked \in Nat
    BY <1>1, AskedIsNat
  <2>4. Cardinality(Asked(job, Request)) \in Nat
    BY <2>3, AskedFinite
  <2> QED
    BY <2>2, <2>4 DEF OrderedIsCovered
<1>4. Traced([r \in Request |-> {}])
  BY DEF CartInit, Traced, OwedTo, CoveredBy
<1>5. [r \in Request |-> {}] \in [Request -> SUBSET Request]
  OBVIOUS
<1> QED
  BY <1>1, <1>2, <1>3, <1>4, <1>5 DEF CartInv

LEMMA CartInvariant == CartSpec => []CartInv
<1>1. CartInv /\ [CartNext]_cartVars => CartInv'
  <2> SUFFICES ASSUME CartInv, [CartNext]_cartVars PROVE CartInv'
    OBVIOUS
  <2>1. PICK from \in [Request -> SUBSET Request] : Traced(from)
    BY DEF CartInv
  <2>2. CartTypeOK' /\ Named'
    BY <2>1, StepNames DEF CartInv
  <2>3. \E to \in [Request -> SUBSET Request] : Traced(to)'
    BY <2>1, StepTraces DEF CartInv
  <2> QED
    BY <2>2, <2>3, StepCoversOrder DEF CartInv
<1> QED
  BY <1>1, CartInitInv, PTL DEF CartSpec

(* Whatever is added twice, merged from a stale reading or replaced while  *)
(* it is being removed: the cart and its order never have more units than  *)
(* requests asked for.                                                     *)
THEOREM CartsNeverHoldMoreThanAsked == CartSpec => []NeverMoreThanAsked
<1>1. CartInv => NeverMoreThanAsked
  <2> SUFFICES ASSUME CartInv PROVE NeverMoreThanAsked
    OBVIOUS
  <2>1. PICK from \in [Request -> SUBSET Request] : Traced(from)
    BY DEF CartInv
  <2>2. Cardinality(UnitsOf(lines)) <= Cardinality(Asked(job, Request))
    BY <2>1, LinesAreCovered DEF CartInv, Traced
  <2>3. \A found \in {lines, ordered} :
          Cardinality(UnitsOf(found)) <= Cardinality(Asked(job, Request))
    BY <2>2 DEF CartInv, OrderedIsCovered
  <2> QED
    BY <2>3, Zenon DEF NeverMoreThanAsked, UnitsOf, Asked
<1> QED
  BY <1>1, CartInvariant, PTL

=============================================================================
