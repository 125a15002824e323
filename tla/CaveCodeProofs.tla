--------------------------- MODULE CaveCodeProofs ---------------------------
(***************************************************************************)
(* What CaveCode writes is right for every place, program and patch and     *)
(* every width of the fields: a field is computed only where it reaches, so *)
(* the cast to its width changes nothing, and in a 32-bit target the jumps  *)
(* are right because both the cast and the processor go round the same      *)
(* circle.  And the types of CaveHook and CaveCode side by side.            *)
(***************************************************************************)
EXTENDS MCCaveHook, CaveHookProofs, TLAPS

-----------------------------------------------------------------------------
(* Remainders.                                                               *)

(* A multiple of M strictly between -M and M is zero.                        *)
LEMMA SmallMultiple ==
  ASSUME NEW M \in Nat, M > 0, NEW k \in Int, -M < M * k, M * k < M
  PROVE  k = 0
BY SMT

(* Division with remainder.                                                  *)
LEMMA Division ==
  ASSUME NEW M \in Nat, M > 0, NEW a \in Int
  PROVE  a \div M \in Int /\ a = M * (a \div M) + (a % M) /\ a % M \in 0..(M - 1)
BY SMT

(* A remainder does not change by whole turns.                               *)
LEMMA WholeTurns ==
  ASSUME NEW M \in Nat, M > 0, NEW a \in Int, NEW q \in Int
  PROVE  (a + M * q) % M = a % M
<1> DEFINE b == a + M * q
<1> DEFINE k == (a \div M) + q - (b \div M)
<1>1. b \in Int
  BY SMT
<1>2. a \div M \in Int /\ a = M * (a \div M) + (a % M) /\ a % M \in 0..(M - 1)
  BY Division
<1>3. b \div M \in Int /\ b = M * (b \div M) + (b % M) /\ b % M \in 0..(M - 1)
  BY <1>1, Division
<1>4. k \in Int /\ (b % M) - (a % M) = M * k
  BY <1>2, <1>3, SMT
<1>5. k = 0
  <2>1. -M < M * k /\ M * k < M
    BY <1>2, <1>3, <1>4, SMT
  <2> QED
    BY <1>4, <2>1, SmallMultiple
<1>6. b % M = a % M
  BY <1>2, <1>3, <1>4, <1>5, SMT
<1> QED
  BY <1>6

(* A cast changes a number by whole turns, and not at all in its range.      *)
LEMMA Cast ==
  ASSUME NEW x \in Int, NEW half \in Nat, half > 0
  PROVE  /\ Signed(x, half) \in Int
         /\ \E q \in Int : Signed(x, half) = x + (2 * half) * q
         /\ InRange(x, half) => Signed(x, half) = x
<1> DEFINE M == 2 * half
<1> DEFINE q == -((x + half) \div M)
<1>1. M \in Nat /\ M > 0 /\ x + half \in Int
  BY SMT
<1>2. /\ (x + half) \div M \in Int
      /\ x + half = M * ((x + half) \div M) + ((x + half) % M)
      /\ (x + half) % M \in 0..(M - 1)
  BY <1>1, Division
<1>3. q \in Int /\ ((x + half) % M) - half = x + M * q
  <2> DEFINE d == (x + half) \div M
  <2>1. d \in Int /\ q = -d /\ x + half = M * d + ((x + half) % M)
    BY <1>2
  <2>2. M * (-d) = -(M * d)
    <3> HIDE DEF d
    <3> QED
      BY <1>1, <2>1, SMT
  <2>3. ((x + half) % M) - half = x - M * d
    BY <1>2, SMT
  <2> QED
    BY <1>1, <1>2, <2>1, <2>2, <2>3, SMT
<1>4. InRange(x, half) => (x + half) % M = x + half
  <2>1. SUFFICES ASSUME InRange(x, half) PROVE (x + half) % M = x + half
    OBVIOUS
  <2>2. x + half \in 0..(M - 1)
    BY <2>1, SMT DEF InRange
  <2>3. M * ((x + half) \div M) = (x + half) - ((x + half) % M)
    BY <1>2, SMT
  <2>4. -M < M * ((x + half) \div M) /\ M * ((x + half) \div M) < M
    BY <1>2, <2>2, <2>3, SMT
  <2>5. (x + half) \div M = 0
    BY <1>1, <1>2, <2>4, SmallMultiple
  <2> QED
    BY <1>2, <2>3, <2>5, SMT
<1>5. Signed(x, half) = ((x + half) % M) - half
  BY DEF Signed
<1>6. Signed(x, half) = x + (2 * half) * q
  BY <1>3, <1>5
<1>7. Signed(x, half) \in Int
  BY <1>2, <1>5, SMT
<1>8. \E z \in Int : Signed(x, half) = x + (2 * half) * z
  BY <1>3, <1>6
<1>9. InRange(x, half) => Signed(x, half) = x
  BY <1>4, <1>5, SMT
<1> QED
  BY <1>7, <1>8, <1>9

-----------------------------------------------------------------------------
(* Jumps.                                                                    *)

(* What the constants and the type invariant say of the present job.         *)
LEMMA JobType ==
  ASSUME job \in Jobs
  PROVE  /\ wide \in BOOLEAN /\ site \in Nat /\ caveAddress \in Nat
         /\ ~wide => site \in Addresses32 /\ caveAddress \in Addresses32
         /\ IsCode(program)
         /\ patch.size \in Nat /\ patch.size > 0
         /\ patch.writes \in Seq(STRING) /\ patch.preserve \in BOOLEAN
         /\ job.keep \in BOOLEAN
<1>1. job.place \in Places /\ program \in Programs /\ patch \in Patches /\ job.keep \in BOOLEAN
  BY DEF Jobs, program, patch
<1>2. job.place \in [wide: BOOLEAN, site: Nat, cave: Nat]
  BY <1>1, CaveCodeAssumption DEF CaveCodeAssumption
<1>3. ~wide => site \in Addresses32 /\ caveAddress \in Addresses32
  BY <1>1, CaveCodeAssumption DEF CaveCodeAssumption, wide, site, caveAddress
<1>4. IsCode(program)
  BY <1>1, CaveCodeAssumption DEF CaveCodeAssumption
<1>5. patch \in [size: Nat \ {0}, writes: Seq(STRING), preserve: BOOLEAN]
  BY <1>1, CaveCodeAssumption DEF CaveCodeAssumption
<1> QED
  BY <1>1, <1>2, <1>3, <1>4, <1>5 DEF wide, site, caveAddress

LEMMA SizesType ==
  /\ Rel32 \in Nat /\ Rel32 > 0 /\ Rel8 \in Nat /\ Rel8 > 0
  /\ NearJump \in Nat /\ NearJump > 0 /\ FarJump \in Nat /\ FarJump > 0
  /\ CAVE_SIZE \in Nat
BY CaveCodeAssumption DEF CaveCodeAssumption

(* A jump leads where it should, in its near and in its far form.            *)
LEMMA JumpLands ==
  ASSUME job \in Jobs, NEW from \in Int, NEW to \in Int
  PROVE  /\ JumpBytes(from, to) \in [pos: Int, len: Nat \ {0}, far: BOOLEAN, to: Int]
         /\ Lands(from, JumpBytes(from, to)) = Address(to)
<1> DEFINE delta == to - (from + NearJump)
<1> DEFINE near == [pos |-> from, len |-> NearJump, far |-> FALSE, to |-> Signed(delta, Rel32)]
<1> DEFINE far == [pos |-> from, len |-> FarJump, far |-> TRUE, to |-> to]
<1>1. delta \in Int
  BY SizesType, SMT
<1>2. /\ Signed(delta, Rel32) \in Int
      /\ \E q \in Int : Signed(delta, Rel32) = delta + (2 * Rel32) * q
      /\ InRange(delta, Rel32) => Signed(delta, Rel32) = delta
  BY <1>1, SizesType, Cast
<1>3. CASE wide /\ ~InRange(delta, Rel32)
  <2>1. JumpBytes(from, to) = far
    BY <1>3 DEF JumpBytes
  <2>2. Lands(from, far) = to /\ Address(to) = to
    BY <1>3 DEF Lands, Address
  <2> QED
    BY <2>1, <2>2, SizesType
<1>4. CASE wide /\ InRange(delta, Rel32)
  <2>1. JumpBytes(from, to) = near
    BY <1>4 DEF JumpBytes
  <2>2. Lands(from, near) = from + NearJump + delta
    BY <1>2, <1>4 DEF Lands, Address
  <2>3. from + NearJump + delta = to
    BY SizesType, SMT
  <2>4. Address(to) = to
    BY <1>4 DEF Address
  <2> QED
    BY <1>2, <2>1, <2>2, <2>3, <2>4, SizesType
<1>5. CASE ~wide
  <2>1. JumpBytes(from, to) = near
    BY <1>5 DEF JumpBytes
  <2>2. Lands(from, near) = (from + NearJump + Signed(delta, Rel32)) % (2 * Rel32)
    BY <1>5 DEF Lands, Address
  <2>3. PICK q \in Int : Signed(delta, Rel32) = delta + (2 * Rel32) * q
    BY <1>2
  <2>4. from + NearJump + Signed(delta, Rel32) = to + (2 * Rel32) * q
    BY <2>3, SizesType, SMT
  <2>5. 2 * Rel32 \in Nat /\ 2 * Rel32 > 0
    BY SizesType, SMT
  <2>6. (to + (2 * Rel32) * q) % (2 * Rel32) = to % (2 * Rel32)
    BY <2>5, WholeTurns
  <2>7. Address(to) = to % (2 * Rel32)
    BY <1>5 DEF Address
  <2> QED
    BY <1>2, <2>1, <2>2, <2>4, <2>6, <2>7, SizesType
<1> QED
  BY <1>3, <1>4, <1>5

(* An address of the target is itself.                                       *)
LEMMA OwnAddress ==
  ASSUME job \in Jobs
  PROVE  Address(caveAddress) = caveAddress
<1>1. CASE wide
  BY <1>1 DEF Address
<1>2. CASE ~wide
  <2>1. caveAddress \in 0..(2 * Rel32 - 1)
    BY <1>2, JobType DEF Addresses32
  <2>2. caveAddress % (2 * Rel32) = caveAddress
    BY <2>1, SizesType, SMT
  <2> QED
    BY <1>2, <2>2 DEF Address
<1> QED
  BY <1>1, <1>2

-----------------------------------------------------------------------------
(* The invariant.                                                            *)

(* As much is stolen as the instructions gone through are long.              *)
StolenSoFar ==
  /\ next = 1 => offset = 0
  /\ next > 1 => offset = program[next - 1].pos + program[next - 1].len

(* An instruction and its copy in the cave: the same but for the field,      *)
(* whose sum with the place is the same number, not only the same address.   *)
Copies(new, old) ==
  /\ new.kind = old.kind /\ new.len = old.len /\ new.pos = old.pos
  /\ old.kind # "plain" =>
       stolenAtCave + new.pos + new.len + new.disp = site + old.pos + old.len + old.disp

MovedSoFar ==
  /\ Len(relocated) = IF job.keep THEN next - 1 ELSE 0
  /\ \A k \in DOMAIN relocated : Copies(relocated[k], program[k])

SavedSoFar ==
  IF doing = "save"
  THEN /\ next = 1
       /\ patch.preserve =>
            \A k \in 1..(operand - 1) : patch.writes[k] \in Range(clobbered) \cup {Stack}
  ELSE SavesRegisters

RoomForJump == doing \in {"assemble", "built"} => offset >= jmpBytes.len

JumpBack ==
  doing = "built" =>
    /\ back = [BackJump EXCEPT !.pos = relocatedAt + SizeOf(relocated)]
    /\ relocatedAt + SizeOf(relocated) + BackJump.len <= CAVE_SIZE

CodeInv == CaveCodeTypeOK /\ StolenSoFar /\ MovedSoFar /\ SavedSoFar /\ RoomForJump /\ JumpBack

-----------------------------------------------------------------------------
(* The size of the moved code, once some of it is there.                     *)
LEMMA SizeType ==
  ASSUME NEW s \in Seq(Instructions)
  PROVE  SizeOf(s) \in Nat /\ (s # <<>> => Len(s) \in DOMAIN s)
<1>1. CASE s = <<>>
  BY <1>1 DEF SizeOf
<1>2. CASE s # <<>>
  <2>1. Len(s) \in DOMAIN s
    BY <1>2
  <2>2. s[Len(s)] \in Instructions
    BY <2>1
  <2> QED
    BY <1>2, <2>1, <2>2, SMT DEF SizeOf, Instructions
<1> QED
  BY <1>1, <1>2

(* The instruction to be stolen next begins where stealing has come to.      *)
LEMMA NextBegins ==
  ASSUME CaveCodeTypeOK, StolenSoFar, next \in DOMAIN program
  PROVE  /\ program[next] \in Instructions
         /\ program[next].pos = offset
<1>1. IsCode(program)
  BY JobType DEF CaveCodeTypeOK
<1>2. program \in Seq(Instructions)
  BY <1>1 DEF IsCode
<1>3. program[next] \in Instructions
  BY <1>2
<1>4. program[next].pos = IF next = 1 THEN 0 ELSE program[next - 1].pos + program[next - 1].len
  BY <1>1 DEF IsCode
<1>5. next \in Nat /\ next >= 1
  BY <1>2
<1> QED
  BY <1>3, <1>4, <1>5 DEF StolenSoFar

(* The moved code is as long as what was stolen.                             *)
LEMMA MovedSize ==
  ASSUME CaveCodeTypeOK, StolenSoFar, MovedSoFar, job.keep
  PROVE  SizeOf(relocated) = offset
<1>1. relocated \in Seq(Instructions) /\ next \in Nat /\ next >= 1
  BY DEF CaveCodeTypeOK
<1>2. Len(relocated) = next - 1
  BY DEF MovedSoFar
<1>3. CASE next = 1
  <2>1. relocated = <<>>
    BY <1>1, <1>2, <1>3
  <2> QED
    BY <1>3, <2>1 DEF SizeOf, StolenSoFar
<1>4. CASE next > 1
  <2>1. Len(relocated) = next - 1 /\ next - 1 \in DOMAIN relocated /\ relocated # <<>>
    BY <1>1, <1>2, <1>4
  <2>2. Copies(relocated[next - 1], program[next - 1])
    BY <2>1 DEF MovedSoFar
  <2>3. SizeOf(relocated) = relocated[next - 1].pos + relocated[next - 1].len
    BY <2>1 DEF SizeOf
  <2> QED
    BY <1>4, <2>2, <2>3 DEF StolenSoFar, Copies
<1> QED
  BY <1>1, <1>3, <1>4

(* A field that reaches is recomputed to refer to the same address.          *)
LEMMA FixedRefers ==
  ASSUME CaveCodeTypeOK, NEW i \in Instructions, Reaches(i), i.pos = offset
  PROVE  /\ Fixed(i) \in Int
         /\ i.kind # "plain" =>
              There + i.len + Fixed(i) = site + i.pos + i.len + i.disp
<1>1. /\ site \in Nat /\ caveAddress \in Nat /\ patch.size \in Nat /\ prologue \in Nat
      /\ offset \in Nat /\ SizeOf(relocated) \in Nat
  BY JobType, SizeType DEF CaveCodeTypeOK
<1>2. There \in Int /\ Here = site + offset
  BY <1>1, SMT DEF There, Here, stolenAtCave
<1>3. i.len \in Nat /\ i.disp \in Int /\ i.pos \in Nat
      /\ i.kind \in {"plain", "rip", "near", "short", "odd"}
  BY DEF Instructions
<1>4. Shifted(i) \in Int /\ There + i.len + Shifted(i) = site + i.pos + i.len + i.disp
  BY <1>1, <1>2, <1>3, SMT DEF Shifted
<1>5. CASE i.kind = "plain"
  BY <1>3, <1>5 DEF Fixed
<1>6. CASE i.kind = "short"
  <2>1. InRange(Shifted(i), Rel8)
    BY <1>6 DEF Reaches
  <2>2. Signed(Shifted(i), Rel8) = Shifted(i)
    BY <1>4, <2>1, SizesType, Cast
  <2>3. Fixed(i) = Shifted(i)
    BY <1>6, <2>2 DEF Fixed
  <2> QED
    BY <1>4, <2>3
<1>7. CASE i.kind \in {"rip", "near"}
  <2>1. InRange(Shifted(i), Rel32)
    BY <1>7 DEF Reaches
  <2>2. Signed(Shifted(i), Rel32) = Shifted(i)
    BY <1>4, <2>1, SizesType, Cast
  <2>3. Fixed(i) = Shifted(i)
    BY <1>7, <2>2 DEF Fixed
  <2> QED
    BY <1>4, <2>3
<1>8. i.kind # "odd"
  BY DEF Reaches
<1> QED
  BY <1>3, <1>5, <1>6, <1>7, <1>8

-----------------------------------------------------------------------------
(* The steps.                                                                *)

LEMMA InitInvariant ==
  ASSUME CaveCodeInit
  PROVE  CodeInv
<1>1. job \in Jobs
  BY DEF CaveCodeInit
<1>2. patch.writes \in Seq(STRING) /\ program \in Seq(Instructions)
  BY <1>1, JobType DEF IsCode
<1>3. CaveCodeTypeOK
  <2>1. /\ doing = "save" /\ operand = 1 /\ clobbered = <<>> /\ prologue = 0
        /\ next = 1 /\ offset = 0 /\ relocated = <<>> /\ back = NoJump
    BY DEF CaveCodeInit
  <2> QED
    BY <1>1, <1>2, <2>1 DEF CaveCodeTypeOK, NoJump
<1>4. StolenSoFar
  BY DEF CaveCodeInit, StolenSoFar
<1>5. MovedSoFar
  BY DEF CaveCodeInit, MovedSoFar
<1>6. SavedSoFar
  BY DEF CaveCodeInit, SavedSoFar
<1>7. RoomForJump /\ JumpBack
  BY DEF CaveCodeInit, RoomForJump, JumpBack
<1> QED
  BY <1>3, <1>4, <1>5, <1>6, <1>7 DEF CodeInv

(* The choice of the job stays, and with it all that is computed from it.    *)
LEMMA SaveRegisterStep ==
  ASSUME CodeInv, SaveRegister
  PROVE  CodeInv'
<1> DEFINE r == patch.writes[operand]
<1>1. /\ doing = "save" /\ doing' = "save" /\ patch.preserve /\ operand \in DOMAIN patch.writes
      /\ operand' = operand + 1 /\ UNCHANGED <<job, next, offset, relocated, back>>
      /\ UNCHANGED <<wide, site, caveAddress, program, patch>>
  BY DEF SaveRegister, wide, site, caveAddress, program, patch
<1>2. /\ CaveCodeTypeOK /\ next = 1
      /\ \A k \in 1..(operand - 1) : patch.writes[k] \in Range(clobbered) \cup {Stack}
  BY <1>1 DEF CodeInv, SavedSoFar
<1>3. patch.writes \in Seq(STRING) /\ program \in Seq(Instructions)
  BY <1>2, JobType DEF CaveCodeTypeOK, IsCode
<1>4. r \in STRING /\ clobbered \in Seq(STRING) /\ prologue \in Nat /\ PushLength(r) \in Nat
  BY <1>1, <1>2, <1>3 DEF CaveCodeTypeOK, PushLength
<1>5. /\ clobbered' \in Seq(STRING) /\ prologue' \in Nat
      /\ Range(clobbered) \subseteq Range(clobbered')
      /\ r \in Range(clobbered') \cup {Stack}
  <2>1. CASE r = Stack \/ r \in Range(clobbered)
    <3>1. clobbered' = clobbered /\ prologue' = prologue
      BY <2>1 DEF SaveRegister
    <3> QED
      BY <1>4, <2>1, <3>1
  <2>2. CASE ~(r = Stack \/ r \in Range(clobbered))
    <3>1. clobbered' = Append(clobbered, r) /\ prologue' = prologue + PushLength(r)
      BY <2>2 DEF SaveRegister
    <3>2. /\ Len(clobbered') = Len(clobbered) + 1 /\ clobbered' \in Seq(STRING)
          /\ clobbered'[Len(clobbered) + 1] = r
          /\ \A k \in 1..Len(clobbered) : clobbered'[k] = clobbered[k]
      BY <1>4, <3>1
    <3>3. DOMAIN clobbered = 1..Len(clobbered) /\ DOMAIN clobbered' = 1..(Len(clobbered) + 1)
          /\ Len(clobbered) \in Nat
      BY <1>4, <3>2
    <3>4. Range(clobbered) \subseteq Range(clobbered')
      BY <3>2, <3>3 DEF Range
    <3>5. r \in Range(clobbered')
      BY <3>2, <3>3 DEF Range
    <3> QED
      BY <1>4, <3>1, <3>2, <3>4, <3>5
  <2> QED
    BY <2>1, <2>2
<1>6. CaveCodeTypeOK'
  <2>1. operand' \in 1..(Len(patch.writes) + 1)
    BY <1>1, <1>3
  <2> QED
    BY <1>1, <1>2, <1>5, <2>1 DEF CaveCodeTypeOK
<1>7. StolenSoFar'
  BY <1>1 DEF CodeInv, StolenSoFar
<1>8. MovedSoFar'
  <2>1. relocated = <<>>
    <3>1. relocated \in Seq(Instructions) /\ Len(relocated) = 0
      BY <1>2 DEF CodeInv, MovedSoFar, CaveCodeTypeOK
    <3> QED
      BY <3>1
  <2>2. Len(relocated') = IF job'.keep THEN next' - 1 ELSE 0
    BY <1>1 DEF CodeInv, MovedSoFar
  <2>3. DOMAIN relocated' = {}
    BY <1>1, <2>1
  <2> QED
    BY <2>2, <2>3 DEF MovedSoFar
<1>9. SavedSoFar'
  <2>1. operand \in Nat
    BY <1>2 DEF CaveCodeTypeOK
  <2>2. ASSUME NEW k \in 1..(operand' - 1)
        PROVE  patch'.writes[k] \in Range(clobbered') \cup {Stack}
    BY <1>1, <1>2, <1>5, <2>1, <2>2
  <2> QED
    BY <1>1, <1>2, <2>2 DEF SavedSoFar
<1>10. RoomForJump' /\ JumpBack'
  BY <1>1 DEF RoomForJump, JumpBack
<1> QED
  BY <1>6, <1>7, <1>8, <1>9, <1>10 DEF CodeInv

(* A step that only moves on or gives up, and what it keeps.                 *)
LEMMA KeptBySame ==
  ASSUME CodeInv, UNCHANGED <<job, operand, clobbered, prologue, next, offset, relocated>>
  PROVE  /\ StolenSoFar' /\ MovedSoFar'
         /\ SavesRegisters => SavesRegisters'
         /\ UNCHANGED <<jmpBytes, relocatedAt, SizeOf(relocated), BackJump, patch, program>>
<1>1. UNCHANGED <<wide, site, caveAddress, program, patch>>
  BY DEF wide, site, caveAddress, program, patch
<1>2. UNCHANGED <<relocatedAt, stolenAtCave, SizeOf(relocated)>>
  BY <1>1 DEF relocatedAt, stolenAtCave, SizeOf
<1>3. UNCHANGED <<jmpBytes, BackJump>>
  BY <1>1, <1>2 DEF jmpBytes, BackJump, JumpBytes, InRange, Signed
<1>4. StolenSoFar'
  BY <1>1 DEF CodeInv, StolenSoFar
<1>5. MovedSoFar'
  BY <1>1, <1>2 DEF CodeInv, MovedSoFar, Copies
<1>6. SavesRegisters => SavesRegisters'
  BY <1>1 DEF SavesRegisters
<1> QED
  BY <1>1, <1>2, <1>3, <1>4, <1>5, <1>6

LEMMA RegistersSavedStep ==
  ASSUME CodeInv, RegistersSaved
  PROVE  CodeInv'
<1>1. /\ doing = "save" /\ doing' = "steal" /\ (patch.preserve => operand > Len(patch.writes))
      /\ UNCHANGED <<job, operand, clobbered, prologue, next, offset, relocated, back>>
  BY DEF RegistersSaved
<1>2. /\ StolenSoFar' /\ MovedSoFar' /\ (SavesRegisters => SavesRegisters')
      /\ UNCHANGED <<patch, program>>
  BY <1>1, KeptBySame
<1>3. CaveCodeTypeOK'
  BY <1>1, <1>2 DEF CodeInv, CaveCodeTypeOK
<1>4. SavesRegisters
  <2>1. patch.writes \in Seq(STRING) /\ operand \in Nat
    BY JobType DEF CodeInv, CaveCodeTypeOK
  <2>2. ASSUME patch.preserve, NEW k \in DOMAIN patch.writes
        PROVE  patch.writes[k] \in Range(clobbered) \cup {Stack}
    BY <1>1, <2>1, <2>2 DEF CodeInv, SavedSoFar
  <2> QED
    BY <2>2 DEF SavesRegisters
<1>5. SavedSoFar'
  BY <1>1, <1>2, <1>4 DEF SavedSoFar
<1>6. RoomForJump' /\ JumpBack'
  BY <1>1 DEF RoomForJump, JumpBack
<1> QED
  BY <1>2, <1>3, <1>5, <1>6 DEF CodeInv

LEMMA RefusedStep ==
  ASSUME CodeInv, Refused, doing # "save"
  PROVE  CodeInv'
<1>1. /\ doing' = "refused"
      /\ UNCHANGED <<job, operand, clobbered, prologue, next, offset, relocated, back>>
  BY DEF Refused
<1>2. /\ StolenSoFar' /\ MovedSoFar' /\ (SavesRegisters => SavesRegisters')
      /\ UNCHANGED <<patch, program>>
  BY <1>1, KeptBySame
<1>3. CaveCodeTypeOK'
  BY <1>1, <1>2 DEF CodeInv, CaveCodeTypeOK
<1>4. SavedSoFar'
  BY <1>1, <1>2 DEF CodeInv, SavedSoFar
<1>5. RoomForJump' /\ JumpBack'
  BY <1>1 DEF RoomForJump, JumpBack
<1> QED
  BY <1>2, <1>3, <1>4, <1>5 DEF CodeInv

LEMMA StolenStep ==
  ASSUME CodeInv, Stolen
  PROVE  CodeInv'
<1>1. /\ doing = "steal" /\ doing' = "assemble" /\ offset >= jmpBytes.len
      /\ UNCHANGED <<job, operand, clobbered, prologue, next, offset, relocated, back>>
  BY DEF Stolen
<1>2. /\ StolenSoFar' /\ MovedSoFar' /\ (SavesRegisters => SavesRegisters')
      /\ UNCHANGED <<patch, program, jmpBytes>>
  BY <1>1, KeptBySame
<1>3. CaveCodeTypeOK'
  BY <1>1, <1>2 DEF CodeInv, CaveCodeTypeOK
<1>4. SavedSoFar'
  BY <1>1, <1>2 DEF CodeInv, SavedSoFar
<1>5. RoomForJump' /\ JumpBack'
  BY <1>1, <1>2 DEF RoomForJump, JumpBack
<1> QED
  BY <1>2, <1>3, <1>4, <1>5 DEF CodeInv

(* Where the jump back is placed it has the shape of a jump.                 *)
LEMMA BackJumpType ==
  ASSUME CaveCodeTypeOK
  PROVE  /\ relocatedAt \in Nat /\ SizeOf(relocated) \in Nat
         /\ BackJump \in [pos: Int, len: Nat \ {0}, far: BOOLEAN, to: Int]
         /\ Lands(caveAddress + relocatedAt + SizeOf(relocated), BackJump) = Address(site + offset)
<1>1. /\ site \in Nat /\ caveAddress \in Nat /\ patch.size \in Nat /\ prologue \in Nat
      /\ offset \in Nat /\ SizeOf(relocated) \in Nat /\ job \in Jobs
  BY JobType, SizeType DEF CaveCodeTypeOK
<1>2. relocatedAt \in Nat
  BY <1>1, SMT DEF relocatedAt
<1>3. caveAddress + relocatedAt + SizeOf(relocated) \in Int /\ site + offset \in Int
  BY <1>1, <1>2, SMT
<1> QED
  BY <1>1, <1>2, <1>3, JumpLands DEF BackJump

LEMMA AssembleStep ==
  ASSUME CodeInv, Assemble
  PROVE  CodeInv'
<1> DEFINE p == relocatedAt + SizeOf(relocated)
<1>1. /\ doing = "assemble" /\ doing' = "built" /\ p + BackJump.len <= CAVE_SIZE
      /\ back' = [BackJump EXCEPT !.pos = p]
      /\ UNCHANGED <<job, operand, clobbered, prologue, next, offset, relocated>>
  BY DEF Assemble
<1>2. /\ StolenSoFar' /\ MovedSoFar' /\ (SavesRegisters => SavesRegisters')
      /\ UNCHANGED <<patch, program, jmpBytes, relocatedAt, SizeOf(relocated), BackJump>>
  BY <1>1, KeptBySame
<1>3. back' \in [pos: Nat, len: Nat, far: BOOLEAN, to: Int]
  <2>1. /\ relocatedAt \in Nat /\ SizeOf(relocated) \in Nat
        /\ BackJump \in [pos: Int, len: Nat \ {0}, far: BOOLEAN, to: Int]
    BY BackJumpType DEF CodeInv
  <2> QED
    BY <1>1, <2>1
<1>4. CaveCodeTypeOK'
  BY <1>1, <1>2, <1>3 DEF CodeInv, CaveCodeTypeOK
<1>5. SavedSoFar'
  BY <1>1, <1>2 DEF CodeInv, SavedSoFar
<1>6. RoomForJump'
  BY <1>1, <1>2 DEF CodeInv, RoomForJump
<1>7. JumpBack'
  BY <1>1, <1>2 DEF JumpBack
<1> QED
  BY <1>2, <1>4, <1>5, <1>6, <1>7 DEF CodeInv

(* What a stolen instruction, dropped or moved, adds to the count.           *)
LEMMA GoesOn ==
  ASSUME CodeInv, Stealing, next \in DOMAIN program, Goes
  PROVE  /\ next \in Nat /\ next' = next + 1 /\ next' \in 1..(Len(program) + 1)
         /\ offset' \in Nat /\ StolenSoFar'
         /\ SavesRegisters' /\ doing' = "steal"
         /\ UNCHANGED <<wide, site, caveAddress, program, patch, stolenAtCave>>
         /\ UNCHANGED <<job, doing, operand, clobbered, prologue, back>>
<1>1. /\ doing = "steal" /\ next' = next + 1 /\ offset' = offset + program[next].len
      /\ UNCHANGED <<job, doing, operand, clobbered, prologue, back>>
  BY DEF Stealing, Goes
<1>2. UNCHANGED <<wide, site, caveAddress, program, patch, stolenAtCave>>
  BY <1>1 DEF wide, site, caveAddress, program, patch, stolenAtCave
<1>3. program \in Seq(Instructions) /\ next \in Nat /\ next >= 1
  BY JobType DEF CodeInv, CaveCodeTypeOK, IsCode
<1>4. program[next] \in Instructions /\ program[next].pos = offset
  BY NextBegins DEF CodeInv
<1>5. program[next].len \in Nat /\ offset \in Nat
  BY <1>4 DEF CodeInv, CaveCodeTypeOK, Instructions
<1>6. StolenSoFar'
  <2>1. next' > 1 /\ next' - 1 = next
    BY <1>1, <1>3
  <2>2. offset' = program[next].pos + program[next].len
    BY <1>1, <1>4
  <2> QED
    BY <1>2, <1>3, <2>1, <2>2 DEF StolenSoFar
<1>7. SavesRegisters'
  BY <1>1, <1>2 DEF CodeInv, SavedSoFar, SavesRegisters
<1> QED
  BY <1>1, <1>2, <1>3, <1>5, <1>6, <1>7

LEMMA DropStep ==
  ASSUME CodeInv, Drop
  PROVE  CodeInv'
<1>1. Stealing /\ ~job.keep /\ next \in DOMAIN program /\ Goes /\ relocated' = relocated
  BY DEF Drop
<1>2. /\ next \in Nat /\ next' = next + 1 /\ next' \in 1..(Len(program) + 1)
      /\ offset' \in Nat /\ StolenSoFar' /\ SavesRegisters' /\ doing' = "steal"
      /\ UNCHANGED <<wide, site, caveAddress, program, patch, stolenAtCave>>
      /\ UNCHANGED <<job, doing, operand, clobbered, prologue, back>>
  BY <1>1, GoesOn
<1>3. CaveCodeTypeOK'
  BY <1>1, <1>2 DEF CodeInv, CaveCodeTypeOK
<1>4. MovedSoFar'
  BY <1>1, <1>2 DEF CodeInv, MovedSoFar, Copies
<1>5. SavedSoFar' /\ RoomForJump' /\ JumpBack'
  BY <1>2 DEF SavedSoFar, RoomForJump, JumpBack
<1> QED
  BY <1>2, <1>3, <1>4, <1>5 DEF CodeInv

LEMMA MoveStep ==
  ASSUME CodeInv, Move
  PROVE  CodeInv'
<1> DEFINE old == program[next]
<1> DEFINE new == [old EXCEPT !.pos = SizeOf(relocated), !.disp = Fixed(old)]
<1>1. /\ Stealing /\ job.keep /\ next \in DOMAIN program /\ Goes
      /\ Reaches(old) /\ relocated' = Append(relocated, new)
  BY DEF Move
<1>2. /\ next \in Nat /\ next' = next + 1 /\ next' \in 1..(Len(program) + 1)
      /\ offset' \in Nat /\ StolenSoFar' /\ SavesRegisters' /\ doing' = "steal"
      /\ UNCHANGED <<wide, site, caveAddress, program, patch, stolenAtCave>>
      /\ UNCHANGED <<job, doing, operand, clobbered, prologue, back>>
  BY <1>1, GoesOn
<1>3. old \in Instructions /\ old.pos = offset /\ SizeOf(relocated) = offset
  BY <1>1, NextBegins, MovedSize DEF CodeInv
<1>4. /\ Fixed(old) \in Int
      /\ old.kind # "plain" =>
           There + old.len + Fixed(old) = site + old.pos + old.len + old.disp
  BY <1>1, <1>3, FixedRefers DEF CodeInv
<1>5. new \in Instructions
  <2>1. offset \in Nat
    BY DEF CodeInv, CaveCodeTypeOK
  <2> QED
    BY <1>3, <1>4, <2>1 DEF Instructions
<1>6. Copies(new, old)
  <2>1. new.kind = old.kind /\ new.len = old.len /\ new.pos = offset /\ new.disp = Fixed(old)
    BY <1>3 DEF Instructions
  <2>2. There = stolenAtCave + new.pos
    BY <1>3, <2>1 DEF There
  <2> QED
    BY <1>3, <1>4, <2>1, <2>2 DEF Copies
<1>7. relocated \in Seq(Instructions) /\ Len(relocated) = next - 1
  BY <1>1 DEF CodeInv, CaveCodeTypeOK, MovedSoFar
<1>8. /\ relocated' \in Seq(Instructions) /\ Len(relocated') = next
      /\ relocated'[next] = new
      /\ \A k \in 1..(next - 1) : relocated'[k] = relocated[k]
  BY <1>1, <1>2, <1>5, <1>7
<1>9. CaveCodeTypeOK'
  BY <1>2, <1>8 DEF CodeInv, CaveCodeTypeOK
<1>10. MovedSoFar'
  <2>1. Len(relocated') = next' - 1
    BY <1>2, <1>8
  <2>2. ASSUME NEW k \in DOMAIN relocated'
        PROVE  Copies(relocated'[k], program[k])
    <3>1. k \in 1..next
      BY <1>8
    <3>2. CASE k = next
      BY <1>6, <1>8, <3>2
    <3>3. CASE k # next
      <4>1. k \in 1..(next - 1) /\ k \in DOMAIN relocated
        BY <1>2, <1>7, <3>1, <3>3
      <4> QED
        BY <1>8, <4>1 DEF CodeInv, MovedSoFar
    <3> QED
      BY <3>2, <3>3
  <2>3. (\A k \in DOMAIN relocated : Copies(relocated[k], program[k]))'
    BY <1>2, <2>2 DEF Copies
  <2> QED
    BY <1>1, <1>2, <2>1, <2>3 DEF MovedSoFar
<1>11. SavedSoFar' /\ RoomForJump' /\ JumpBack'
  BY <1>2 DEF SavedSoFar, RoomForJump, JumpBack
<1> QED
  BY <1>2, <1>9, <1>10, <1>11 DEF CodeInv

LEMMA StepInvariant ==
  ASSUME CodeInv, [CaveCodeNext]_caveCodeVars
  PROVE  CodeInv'
<1>1. CASE SaveRegister
  BY <1>1, SaveRegisterStep
<1>2. CASE RegistersSaved
  BY <1>2, RegistersSavedStep
<1>3. CASE Undecodable
  BY <1>3, RefusedStep DEF Undecodable, Stealing
<1>4. CASE Drop
  BY <1>4, DropStep
<1>5. CASE Move
  BY <1>5, MoveStep
<1>6. CASE OutOfReach
  BY <1>6, RefusedStep DEF OutOfReach, Stealing
<1>7. CASE Stolen
  BY <1>7, StolenStep
<1>8. CASE Assemble
  BY <1>8, AssembleStep
<1>9. CASE TooLarge
  BY <1>9, RefusedStep DEF TooLarge
<1>10. CASE UNCHANGED caveCodeVars
  <2>1. /\ StolenSoFar' /\ MovedSoFar' /\ (SavesRegisters => SavesRegisters')
        /\ UNCHANGED <<patch, program, jmpBytes, relocatedAt, SizeOf(relocated), BackJump>>
    BY <1>10, KeptBySame DEF caveCodeVars
  <2>2. CaveCodeTypeOK'
    BY <1>10, <2>1 DEF CodeInv, CaveCodeTypeOK, caveCodeVars
  <2>3. SavedSoFar'
    BY <1>10, <2>1 DEF CodeInv, SavedSoFar, caveCodeVars
  <2>4. RoomForJump' /\ JumpBack'
    BY <1>10, <2>1 DEF CodeInv, RoomForJump, JumpBack, caveCodeVars
  <2> QED
    BY <2>1, <2>2, <2>3, <2>4 DEF CodeInv
<1> QED
  BY <1>1, <1>2, <1>3, <1>4, <1>5, <1>6, <1>7, <1>8, <1>9, <1>10 DEF CaveCodeNext

(* The invariant holds in every reachable state.                             *)
LEMMA Invariant == CaveCodeSpec => []CodeInv
<1>1. CaveCodeInit => CodeInv
  BY InitInvariant
<1>2. CodeInv /\ [CaveCodeNext]_caveCodeVars => CodeInv'
  BY StepInvariant
<1> QED
  BY <1>1, <1>2, PTL DEF CaveCodeSpec

-----------------------------------------------------------------------------
(* What the invariant says of a cave that is written.                        *)
LEMMA BuiltIsFaithful ==
  ASSUME CodeInv
  PROVE  CaveIsFaithful
<1> SUFFICES ASSUME doing = "built"
             PROVE  /\ EntersCave /\ ComesBack /\ MovesFaithfully /\ SavesRegisters
                    /\ back.pos + back.len <= CAVE_SIZE
  BY DEF CaveIsFaithful
<1>1. CaveCodeTypeOK /\ job \in Jobs
  BY DEF CodeInv, CaveCodeTypeOK
<1>2. /\ back = [BackJump EXCEPT !.pos = relocatedAt + SizeOf(relocated)]
      /\ relocatedAt + SizeOf(relocated) + BackJump.len <= CAVE_SIZE
  BY DEF CodeInv, JumpBack
<1>3. /\ relocatedAt \in Nat /\ SizeOf(relocated) \in Nat
      /\ BackJump \in [pos: Int, len: Nat \ {0}, far: BOOLEAN, to: Int]
      /\ Lands(caveAddress + relocatedAt + SizeOf(relocated), BackJump) = Address(site + offset)
  BY <1>1, BackJumpType
<1>4. /\ back.pos = relocatedAt + SizeOf(relocated) /\ back.len = BackJump.len
      /\ back.far = BackJump.far /\ back.to = BackJump.to
  BY <1>2, <1>3
<1>5. /\ site \in Nat /\ caveAddress \in Nat /\ offset \in Nat /\ next \in Nat
      /\ program \in Seq(Instructions) /\ next \in 1..(Len(program) + 1)
  BY <1>1, JobType DEF CaveCodeTypeOK, IsCode
<1>6. EntersCave
  <2>1. Lands(site, jmpBytes) = Address(caveAddress)
    BY <1>1, <1>5, JumpLands DEF jmpBytes
  <2> QED
    BY <1>1, <2>1, OwnAddress DEF EntersCave
<1>7. ComesBack
  <2>1. caveAddress + back.pos = caveAddress + relocatedAt + SizeOf(relocated)
    BY <1>3, <1>4, <1>5
  <2>2. Lands(caveAddress + back.pos, back) = Address(site + offset)
    BY <1>3, <1>4, <2>1 DEF Lands
  <2>3. offset >= jmpBytes.len
    BY DEF CodeInv, RoomForJump
  <2>4. jmpBytes.len \in Nat \ {0}
    BY <1>1, <1>5, JumpLands DEF jmpBytes
  <2>5. next > 1
    BY <1>5, <2>3, <2>4 DEF CodeInv, StolenSoFar
  <2>6. next - 1 \in DOMAIN program /\ offset = program[next - 1].pos + program[next - 1].len
    BY <1>5, <2>5 DEF CodeInv, StolenSoFar
  <2> QED
    BY <2>2, <2>3, <2>6 DEF ComesBack
<1>8. MovesFaithfully
  <2>1. job.keep => Len(relocated) = next - 1
    BY DEF CodeInv, MovedSoFar
  <2>2. caveAddress + relocatedAt = stolenAtCave
    <3>1. prologue \in Nat /\ patch.size \in Nat
      BY <1>1, JobType DEF CaveCodeTypeOK
    <3> QED
      BY <1>5, <3>1 DEF relocatedAt, stolenAtCave
  <2>3. ASSUME NEW k \in DOMAIN relocated
        PROVE  /\ relocated[k].kind = program[k].kind /\ relocated[k].len = program[k].len
               /\ relocated[k].pos = program[k].pos
               /\ program[k].kind # "plain" =>
                    Refers(caveAddress + relocatedAt, relocated[k]) = Refers(site, program[k])
    BY <2>2 DEF CodeInv, MovedSoFar, Copies, Refers
  <2> QED
    BY <2>1, <2>3 DEF MovesFaithfully
<1>9. SavesRegisters
  BY DEF CodeInv, SavedSoFar
<1>10. back.pos + back.len <= CAVE_SIZE
  BY <1>2, <1>4
<1> QED
  BY <1>6, <1>7, <1>8, <1>9, <1>10

(* Apply keeps the types of what it computes (CavePatch.cpp:131-200).        *)
THEOREM CaveCodeTypeCorrect == CaveCodeSpec => []CaveCodeTypeOK
<1>1. CodeInv => CaveCodeTypeOK
  BY DEF CodeInv
<1> QED
  BY <1>1, Invariant, PTL

(* Every cave Apply writes is entered by the jump at the site, saves the     *)
(* registers of the patch, holds the stolen instructions with the references *)
(* they had outside the stolen bytes and leads back behind them, for every   *)
(* place, distance, width, program and patch (CavePatch.cpp:131-211,         *)
(* Relocator.cpp:17-156).                                                    *)
THEOREM CaveFaithful == CaveCodeSpec => []CaveIsFaithful
<1>1. CodeInv => CaveIsFaithful
  BY BuiltIsFaithful
<1> QED
  BY <1>1, Invariant, PTL

(* The steps of the cave in the game and the construction of what is in it   *)
(* keep their types side by side.                                            *)
THEOREM CaveTypeCorrect == MCSpec => []MCTypeOK
<1>1. MCInit => Init /\ CaveCodeInit
  BY DEF MCInit
<1>2. [MCNext]_<<vars, caveCodeVars>> => [Next]_vars /\ [CaveCodeNext]_caveCodeVars
  BY DEF MCNext
<1>3. MCSpec => Spec /\ CaveCodeSpec
  BY <1>1, <1>2, PTL DEF MCSpec, Spec, CaveCodeSpec
<1> QED
  BY <1>3, TypeCorrect, CaveCodeTypeCorrect, PTL DEF MCTypeOK
=============================================================================
