------------------------------ MODULE Receipts -------------------------------
(***************************************************************************)
(* ReceiptsService with its files: uploads before checkout and the cap on  *)
(* them, attachment by a checkout, replacements, and the timer that deletes*)
(* uploads nobody used.  A file is written before the row that names it and*)
(* removed by compensation, so the two may part: an insertion fails or is  *)
(* not acknowledged, the process dies, the disk refuses.                   *)
(*                                                                         *)
(* A row and its file are named by the upload that brings them.  Of the    *)
(* order of a cart only what these handlers look at is kept.               *)
(***************************************************************************)
EXTENDS Naturals, FiniteSets, Sequences

CONSTANTS
  Cart,        \* rows of carts
  Upload,      \* requests that carry a file
  CartOf,      \* CartOf[u]: the cart whose token u presents
  MaxPending,  \* RECEIPT_MAX_PENDING_PER_CART
  SweepLimit,  \* take: of deleteExpiredUnattached
  MaxFailures  \* bound: crashes, lost acknowledgements, refusals of the disk

ASSUME ReceiptsAssumption ==
  /\ IsFiniteSet(Upload)
  /\ CartOf \in [Upload -> Cart]
  /\ MaxPending \in Nat \ {0}
  /\ SweepLimit \in Nat \ {0}
  /\ MaxFailures \in Nat

VARIABLES
  order,     \* order[c]: "NONE", or what the order of cart c has come to
  attached,  \* attached[c]: receipts of the order, oldest first
  row,       \* row[u]: "NONE", "UNATTACHED", "ATTACHED" or "DELETED"
  status,    \* status[u]: payment_receipts.status
  expiry,    \* expiry[u]: payment_receipts."expiresAt" against the clock
  files,     \* uploads whose file is on the disk
  pc,        \* pc[u]: the next step of the handler of u
  selected,  \* uploads the cleanup selected and has not tried yet
  unlinking, \* uploads whose row the cleanup deleted, the file being next
  sweepPc,   \* isRunning of the scheduler
  failures   \* failures met so far

rowVars == <<order, attached, row, status, expiry>>
sweepVars == <<selected, unlinking, sweepPc>>
vars == <<rowVars, files, pc, sweepVars, failures>>

Unattached(c) == {u \in Upload : CartOf[u] = c /\ row[u] = "UNATTACHED"}

(* A replacement may be sent while the order is open and unpaid and its    *)
(* latest receipt is rejected.                                             *)
Replaceable(c) ==
  /\ order[c] = "OPEN"
  /\ attached[c] # <<>>
  /\ status[attached[c][Len(attached[c])]] = "REJECTED"

Goto(u, step) == pc' = [pc EXCEPT ![u] = step]

-----------------------------------------------------------------------------
(* uploadForCart: two reads, then the file, then the row.                  *)

CheckCart(u) ==
  /\ pc[u] = "new"
  /\ order[CartOf[u]] = "NONE"
  /\ Goto(u, "count")
  /\ UNCHANGED <<rowVars, files, sweepVars, failures>>

CountPending(u) ==
  /\ pc[u] = "count"
  /\ Goto(u, IF Cardinality(Unattached(CartOf[u])) < MaxPending THEN "save" ELSE "done")
  /\ UNCHANGED <<rowVars, files, sweepVars, failures>>

Save(u) ==
  /\ \/ pc[u] = "save" /\ Goto(u, "insert")
     \/ pc[u] = "resave" /\ Goto(u, "recheck")
  /\ files' = files \cup {u}
  /\ UNCHANGED <<rowVars, sweepVars, failures>>

InsertRow(u) ==
  /\ pc[u] = "insert"
  /\ row' = [row EXCEPT ![u] = "UNATTACHED"]
  /\ expiry' = [expiry EXCEPT ![u] = "FUTURE"]
  /\ Goto(u, "done")
  /\ UNCHANGED <<order, attached, status, files, sweepVars, failures>>

-----------------------------------------------------------------------------
(* uploadReplacementForCart: a check, the file, and a transaction that     *)
(* checks again, without a lock, before it inserts.                        *)

CheckReplacement(u) ==
  /\ pc[u] = "new"
  /\ Replaceable(CartOf[u])
  /\ Goto(u, "resave")
  /\ UNCHANGED <<rowVars, files, sweepVars, failures>>

Recheck(u) ==
  /\ pc[u] = "recheck"
  /\ Goto(u, IF Replaceable(CartOf[u]) THEN "reinsert" ELSE "undo")
  /\ UNCHANGED <<rowVars, files, sweepVars, failures>>

Attach(u) ==
  /\ row' = [row EXCEPT ![u] = "ATTACHED"]
  /\ expiry' = [expiry EXCEPT ![u] = "NULL"]
  /\ attached' = [attached EXCEPT ![CartOf[u]] = Append(@, u)]

InsertReplacement(u) ==
  /\ pc[u] = "reinsert"
  /\ Attach(u)
  /\ Goto(u, "done")
  /\ UNCHANGED <<order, status, files, sweepVars, failures>>

-----------------------------------------------------------------------------
(* What an insertion that throws leaves behind.                            *)

(* The statement is refused, or its transaction times out.                 *)
InsertFails(u) ==
  /\ pc[u] \in {"insert", "reinsert"}
  /\ Goto(u, "undo")
  /\ UNCHANGED <<rowVars, files, sweepVars, failures>>

(* The insertion is committed, and the connection lost before it says so.  *)
InsertUnacknowledged(u) ==
  /\ failures < MaxFailures /\ failures' = failures + 1
  /\ \/ /\ pc[u] = "insert"
        /\ row' = [row EXCEPT ![u] = "UNATTACHED"]
        /\ expiry' = [expiry EXCEPT ![u] = "FUTURE"]
        /\ UNCHANGED attached
     \/ pc[u] = "reinsert" /\ Attach(u)
  /\ Goto(u, "undo")
  /\ UNCHANGED <<order, status, files, sweepVars>>

(* Mutant: the error is passed on without cleaning up.                    *)
UndoNothing(u) ==
  /\ pc[u] = "undo"
  /\ Goto(u, "done")
  /\ UNCHANGED <<rowVars, files, sweepVars, failures>>

Undo(u) ==
  /\ pc[u] = "undo"
  /\ files' = files \ {u}
  /\ Goto(u, "done")
  /\ UNCHANGED <<rowVars, sweepVars, failures>>

-----------------------------------------------------------------------------
(* The order of the cart.                                                  *)

(* attachToOrderInTransaction, with the rest of the checkout around it.    *)
AttachToOrder(c, u) ==
  /\ order[c] = "NONE"
  /\ CartOf[u] = c /\ row[u] = "UNATTACHED" /\ expiry[u] = "FUTURE"
  /\ Attach(u)
  /\ order' = [order EXCEPT ![c] = "OPEN"]
  /\ UNCHANGED <<status, files, pc, sweepVars, failures>>

RejectReceipt(u) ==
  /\ row[u] = "ATTACHED" /\ status[u] = "PENDING_REVIEW"
  /\ status' = [status EXCEPT ![u] = "REJECTED"]
  /\ UNCHANGED <<order, attached, row, expiry, files, pc, sweepVars, failures>>

AcceptPendingReceipt(c) ==
  LET pending == {u \in Upload : /\ CartOf[u] = c /\ row[u] = "ATTACHED"
                                 /\ status[u] = "PENDING_REVIEW"} IN
  /\ order[c] = "OPEN" /\ pending # {}
  /\ status' = [u \in Upload |-> IF u \in pending THEN "ACCEPTED" ELSE status[u]]
  /\ order' = [order EXCEPT ![c] = "PAID"]
  /\ UNCHANGED <<attached, row, expiry, files, pc, sweepVars, failures>>

CancelOrder(c) ==
  /\ order[c] \in {"OPEN", "PAID"}
  /\ order' = [order EXCEPT ![c] = "CANCELLED"]
  /\ UNCHANGED <<attached, row, status, expiry, files, pc, sweepVars, failures>>

-----------------------------------------------------------------------------
(* deleteExpiredUnattached, every five minutes.                            *)

Lapsed == {u \in Upload : row[u] = "UNATTACHED" /\ expiry[u] = "PAST"}

StartCleanup ==
  /\ sweepPc = "idle" /\ sweepPc' = "running"
  /\ \E batch \in SUBSET Lapsed :
       /\ \/ Cardinality(batch) = SweepLimit
          \/ batch = Lapsed /\ Cardinality(batch) < SweepLimit
       /\ selected' = batch
  /\ UNCHANGED <<rowVars, files, pc, unlinking, failures>>

(* Looked at again under the lock of the DELETE.                           *)
DeleteRow(u) ==
  /\ u \in selected /\ unlinking = {}
  /\ selected' = selected \ {u}
  /\ IF u \in Lapsed
       THEN row' = [row EXCEPT ![u] = "DELETED"] /\ unlinking' = {u}
       ELSE UNCHANGED <<row, unlinking>>
  /\ UNCHANGED <<order, attached, status, expiry, files, pc, sweepPc, failures>>

Unlink ==
  /\ unlinking # {} /\ unlinking' = {}
  /\ files' = files \ unlinking
  /\ UNCHANGED <<rowVars, pc, selected, sweepPc, failures>>

(* Mutant: isRunning stays set.                                            *)
EndCleanupForGood ==
  /\ sweepPc = "running" /\ selected = {} /\ unlinking = {}
  /\ UNCHANGED vars

EndCleanup ==
  /\ sweepPc = "running" /\ selected = {} /\ unlinking = {}
  /\ sweepPc' = "idle"
  /\ UNCHANGED <<rowVars, files, pc, selected, unlinking, failures>>

-----------------------------------------------------------------------------
(* Failures, and time.                                                     *)

(* The disk refuses to remove a file: logged, and nothing else.            *)
RemovalFails ==
  /\ failures < MaxFailures /\ failures' = failures + 1
  /\ \/ /\ \E u \in Upload : pc[u] = "undo" /\ Goto(u, "done")
        /\ UNCHANGED unlinking
     \/ /\ unlinking # {} /\ unlinking' = {}
        /\ UNCHANGED pc
  /\ UNCHANGED <<rowVars, files, selected, sweepPc>>

(* The process dies with all it was doing.                                 *)
Crash ==
  /\ failures < MaxFailures /\ failures' = failures + 1
  /\ pc' = [u \in Upload |-> IF pc[u] = "new" THEN "new" ELSE "done"]
  /\ selected' = {} /\ unlinking' = {} /\ sweepPc' = "idle"
  /\ UNCHANGED <<rowVars, files>>

Lapse(u) ==
  /\ expiry[u] = "FUTURE"
  /\ expiry' = [expiry EXCEPT ![u] = "PAST"]
  /\ UNCHANGED <<order, attached, row, status, files, pc, sweepVars, failures>>

-----------------------------------------------------------------------------

Init ==
  /\ order = [c \in Cart |-> "NONE"]
  /\ attached = [c \in Cart |-> <<>>]
  /\ row = [u \in Upload |-> "NONE"]
  /\ status = [u \in Upload |-> "PENDING_REVIEW"]
  /\ expiry = [u \in Upload |-> "NULL"]
  /\ files = {}
  /\ pc = [u \in Upload |-> "new"]
  /\ selected = {} /\ unlinking = {} /\ sweepPc = "idle"
  /\ failures = 0

Handle(u) ==
  \/ CheckCart(u) \/ CountPending(u) \/ Save(u) \/ InsertRow(u)
  \/ CheckReplacement(u) \/ Recheck(u) \/ InsertReplacement(u)
  \/ InsertFails(u) \/ InsertUnacknowledged(u) \/ Undo(u)

Cleanup == StartCleanup \/ (\E u \in selected : DeleteRow(u)) \/ Unlink \/ EndCleanup

Next ==
  \/ \E u \in Upload : Handle(u) \/ RejectReceipt(u) \/ Lapse(u)
  \/ \E c \in Cart : \E u \in Upload : AttachToOrder(c, u)
  \/ \E c \in Cart : AcceptPendingReceipt(c) \/ CancelOrder(c)
  \/ Cleanup \/ RemovalFails \/ Crash

Spec == Init /\ [][Next]_vars

(* The timer keeps ticking, and a cleanup goes on until it fails.          *)
FairSpec == Spec /\ WF_vars(Cleanup)

-----------------------------------------------------------------------------
(* Properties.                                                             *)

ReceiptsTypeOK ==
  /\ order \in [Cart -> {"NONE", "OPEN", "PAID", "CANCELLED"}]
  /\ attached \in [Cart -> Seq(Upload)]
  /\ row \in [Upload -> {"NONE", "UNATTACHED", "ATTACHED", "DELETED"}]
  /\ status \in [Upload -> {"PENDING_REVIEW", "ACCEPTED", "REJECTED"}]
  /\ expiry \in [Upload -> {"NULL", "FUTURE", "PAST"}]
  /\ files \subseteq Upload
  /\ pc \in [Upload -> {"new", "count", "save", "insert", "resave", "recheck",
                        "reinsert", "undo", "done"}]
  /\ selected \subseteq Upload
  /\ unlinking \subseteq Upload
  /\ sweepPc \in {"idle", "running"}
  /\ failures \in Nat

(* Files and rows stay together: when no handler is at work on it, a file  *)
(* is on the disk exactly for a row that names it, whatever was refused,   *)
(* rejected or rolled back.  Only a crash, a disk that refuses or a lost   *)
(* acknowledgement may part them: there is no transaction over both.       *)
FilesMatchRows ==
  failures = 0 =>
    \A u \in Upload :
      pc[u] = "done" /\ u \notin unlinking =>
        (u \in files <=> row[u] \in {"UNATTACHED", "ATTACHED"})

(* An upload nobody used is deleted after its deadline, its file too unless*)
(* something fails, also when it arrived after the checkout of its cart.   *)
LapsedUploadsAreRemoved ==
  \A u \in Upload :
    u \in Lapsed ~> u \notin Lapsed /\ (u \notin files \/ failures > 0)

=============================================================================
