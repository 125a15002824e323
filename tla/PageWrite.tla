----------------------------- MODULE PageWrite -----------------------------
(***************************************************************************)
(* MemoryAccess::Write (core/MemoryAccess.cpp): the pages written to are    *)
(* made writable, the bytes are written, and the protection of the first    *)
(* page is set again on all of them.  The worker and a value field of the   *)
(* window write without a lock while the game runs on the same pages.       *)
(***************************************************************************)
EXTENDS Integers

CONSTANTS
  Writers,      \* the threads that write
  PageCount,
  Spans,        \* the pages a write touches: <<first, last>>
  OwnRights     \* the protections the game may have given its pages

GamePages == 1..PageCount

(* PAGE_EXECUTE_READWRITE.                                                   *)
All == {"read", "write", "execute"}

ASSUME PageAssumption ==
  /\ PageCount \in Nat
  /\ Spans \subseteq {s \in GamePages \X GamePages : s[1] <= s[2]}
  /\ OwnRights \subseteq [GamePages -> SUBSET All]

VARIABLES
  own,          \* own[p]: what the game may do on page p; it never changes
  rights,       \* rights[p]: what it may do there now
  call,         \* call[w]: the call of Write thread w is in, or NoCall: where
                \* it is, the pages it writes to and oldProtect
  overlapped,   \* history: two writes have touched a page at the same time
  lenders       \* history: lenders[p]: the pages whose protection page p may
                \* have got from writes that began on one and went over p

pageVars == <<own, rights, call, overlapped, lenders>>

NoCall == [at |-> "no"]

Touches(s) == s[1]..s[2]

PageTypeOK ==
  /\ own \in OwnRights
  /\ rights \in [GamePages -> SUBSET All]
  /\ call \in [Writers -> {NoCall} \cup
                 [at: {"unprotected", "written", "failed", "protected"},
                  span: Spans, oldProtect: SUBSET All]]
  /\ overlapped \in BOOLEAN
  /\ lenders \in [GamePages -> SUBSET GamePages]

PageInit ==
  /\ own \in OwnRights
  /\ rights = own
  /\ call = [w \in Writers |-> NoCall]
  /\ overlapped = FALSE
  /\ lenders = [p \in GamePages |-> {p}]

(* Write has changed the protection of page p and not set it back.           *)
Holds(w, p) ==
  call[w].at \in {"unprotected", "written", "failed"} /\ p \in Touches(call[w].span)

(* VirtualProtectEx, for all pages the bytes lie on.                         *)
Protect(s, r) == rights' = [p \in GamePages |-> IF p \in Touches(s) THEN r ELSE rights[p]]

Enters(w, s, place, old) ==
  /\ call[w] = NoCall
  /\ call' = [call EXCEPT ![w] = [at |-> place, span |-> s, oldProtect |-> old]]
  /\ UNCHANGED own

(* The first page answers for all of them.                                   *)
Lend(s) ==
  lenders' = [p \in GamePages |->
                IF p \in Touches(s) THEN lenders[p] \cup lenders[s[1]] ELSE lenders[p]]

Meets(w, s) == \E v \in Writers \ {w}, p \in Touches(s) : Holds(v, p)

(* MUTANT of Unprotect: PAGE_READWRITE, which is enough to write.            *)
Unprotect_NoExecute(w, s) ==
  /\ Enters(w, s, "unprotected", rights[s[1]])
  /\ Protect(s, {"read", "write"})
  /\ overlapped' = (overlapped \/ Meets(w, s))
  /\ Lend(s)

(* The old protection reported is that of the first page.                    *)
Unprotect(w, s) ==
  /\ Enters(w, s, "unprotected", rights[s[1]])
  /\ Protect(s, All)
  /\ overlapped' = (overlapped \/ Meets(w, s))
  /\ Lend(s)

(* Windows refuses; the write is tried all the same.                         *)
StaysProtected(w, s) ==
  /\ Enters(w, s, "protected", {})
  /\ UNCHANGED <<rights, overlapped, lenders>>

Writable(w) == \A p \in Touches(call[w].span) : "write" \in rights[p]

(* WriteProcessMemory writes everything, or something goes wrong.            *)
WriteMemory(w) ==
  /\ call[w].at = "unprotected"
  /\ \/ Writable(w) /\ call' = [call EXCEPT ![w].at = "written"]
     \/ call' = [call EXCEPT ![w].at = "failed"]
  /\ UNCHANGED <<own, rights, overlapped, lenders>>

(* The same where nothing has to be set back.                                *)
WriteProtected(w) ==
  /\ call[w].at = "protected"
  /\ call' = [call EXCEPT ![w] = NoCall]
  /\ UNCHANGED <<own, rights, overlapped, lenders>>

(* The second VirtualProtectEx, whether the write went well or not.          *)
Reprotect(w) ==
  /\ call[w].at \in {"written", "failed"}
  /\ Protect(call[w].span, call[w].oldProtect)
  /\ call' = [call EXCEPT ![w] = NoCall]
  /\ UNCHANGED <<own, overlapped, lenders>>

PageNext ==
  \E w \in Writers :
    \/ \E s \in Spans : Unprotect(w, s) \/ StaysProtected(w, s)
    \/ WriteMemory(w)
    \/ WriteProtected(w)
    \/ Reprotect(w)

PageSpec == PageInit /\ [][PageNext]_pageVars

-----------------------------------------------------------------------------
(* At every moment the game may do on a page what it gave that page, or a    *)
(* page a write over it began on, so that no thread of it faults on code or  *)
(* data being patched, however writes of several threads overlap             *)
(* (MemoryAccess.cpp:172).  Only a write over pages of different protection  *)
(* takes rights from the later ones, and for good: that of the first page is *)
(* set on all of them (MemoryAccess.cpp:181).                                *)
GameGoesOn == \A p \in GamePages : \E q \in lenders[p] : own[q] \subseteq rights[p]

(* Unless two writes have met on a page, a write finds its pages writable,   *)
(* and a page no write is at has exactly the protection of one of its        *)
(* lenders - its own, if all writes over it were over pages of its kind -    *)
(* whichever writes fail (MemoryAccess.cpp:178).                             *)
ProtectionReturns ==
  ~overlapped =>
    /\ \A w \in Writers : call[w].at = "unprotected" => Writable(w)
    /\ \A p \in GamePages :
         (\A w \in Writers : ~Holds(w, p)) => \E q \in lenders[p] : rights[p] = own[q]

(* Both.                                                                     *)
PagesAreKept == GameGoesOn /\ ProtectionReturns
=============================================================================
