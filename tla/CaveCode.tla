------------------------------ MODULE CaveCode ------------------------------
(***************************************************************************)
(* What a cave patch writes into the game (patches/CavePatch.cpp, Apply):   *)
(* the registers the patch writes are pushed and popped around it, the      *)
(* game's instructions under the jump are moved into the cave with their    *)
(* relative fields computed anew (core/Relocator.cpp) or dropped, and a     *)
(* jump leads back behind them.  CaveHook has the steps in the game's       *)
(* memory, this module the contents.                                        *)
(***************************************************************************)
EXTENDS Integers, Sequences, Functions

CONSTANTS
  Rel32,      \* half the range of a field of 32 bits: 2^31
  Rel8,       \* half the range of a field of 8 bits: 2^7
  NearJump,   \* length of E9 rel32: 5
  FarJump,    \* length of FF 25 with the address: 14
  CAVE_SIZE,  \* 4096
  Stack,      \* the stack pointer
  Extended,   \* r8 to r15
  Places,     \* wide: is64Bit; site; cave
  Programs,   \* the code at the site, as far as it can be decoded
  Patches     \* size: code.size(); writes: the registers its operands write,
              \* in their order; preserve: preserveRegisters

(* A code is a sequence of instructions, each at its offset.  "rip" and      *)
(* "near" have a field of 32 bits relative to their end, "short" one of 8,   *)
(* "odd" one of another size; a plain instruction refers to nothing.         *)
Instructions ==
  [pos: Nat, len: Nat \ {0}, kind: {"plain", "rip", "near", "short", "odd"}, disp: Int]

IsCode(s) ==
  /\ s \in Seq(Instructions)
  /\ \A i \in DOMAIN s : s[i].pos = IF i = 1 THEN 0 ELSE s[i - 1].pos + s[i - 1].len

(* The addresses of a 32-bit target.                                         *)
Addresses32 == 0..(2 * Rel32 - 1)

ASSUME CaveCodeAssumption ==
  /\ {Rel32, Rel8, NearJump, FarJump} \subseteq Nat \ {0}
  /\ CAVE_SIZE \in Nat
  /\ Places \subseteq [wide: BOOLEAN, site: Nat, cave: Nat]
  /\ \A p \in Places : ~p.wide => {p.site, p.cave} \subseteq Addresses32
  /\ \A s \in Programs : IsCode(s)
  /\ Patches \subseteq [size: Nat \ {0}, writes: Seq(STRING), preserve: BOOLEAN]

VARIABLES
  job,        \* what is installed: its place, the program and the patch there,
              \* and keep: mode is KeepOriginal
  doing,      \* what Apply is about to do, "built" or "refused"
  operand,    \* FindClobberedGpRegisters: the next of writes
  clobbered,  \* its result
  prologue,   \* prologue.size(), and epilogue.size()
  next,       \* the next instruction of the program
  offset,     \* bytes stolen so far
  relocated,  \* the code moved
  back        \* the jump back, placed in the cave

wide == job.place.wide
site == job.place.site
caveAddress == job.place.cave
program == job.program
patch == job.patch

Jobs == [place: Places, program: Programs, patch: Patches, keep: BOOLEAN]

caveCodeVars == <<job, doing, operand, clobbered, prologue, next, offset, relocated, back>>

NoJump == [pos |-> 0, len |-> 0, far |-> FALSE, to |-> 0]

CaveCodeTypeOK ==
  /\ job \in Jobs
  /\ doing \in {"save", "steal", "assemble", "built", "refused"}
  /\ operand \in 1..(Len(patch.writes) + 1)
  /\ clobbered \in Seq(STRING)
  /\ prologue \in Nat
  /\ next \in 1..(Len(program) + 1)
  /\ offset \in Nat
  /\ relocated \in Seq(Instructions)
  /\ back \in [pos: Nat, len: Nat, far: BOOLEAN, to: Int]

CaveCodeInit ==
  /\ job \in Jobs
  /\ doing = "save"
  /\ operand = 1 /\ clobbered = <<>> /\ prologue = 0
  /\ next = 1 /\ offset = 0 /\ relocated = <<>>
  /\ back = NoJump

-----------------------------------------------------------------------------
(* A number cast to a signed one of the given half range.                    *)
Signed(x, half) == ((x + half) % (2 * half)) - half

InRange(x, half) == -half <= x /\ x < half

(* CalculateJumpBytes: the near form in every 32-bit target and where it     *)
(* reaches; the far form holds the address itself.                           *)
JumpBytes(from, to) ==
  LET delta == to - (from + NearJump)
  IN IF ~wide \/ InRange(delta, Rel32)
     THEN [pos |-> from, len |-> NearJump, far |-> FALSE, to |-> Signed(delta, Rel32)]
     ELSE [pos |-> from, len |-> FarJump, far |-> TRUE, to |-> to]

jmpBytes == JumpBytes(site, caveAddress)

(* EmitPush, EmitPop.                                                        *)
PushLength(r) == IF wide /\ r \in Extended THEN 2 ELSE 1

(* MUTANT of stolenAtCave: the epilogue is forgotten.                        *)
stolenAtCave_NoEpilogue == caveAddress + prologue + patch.size

stolenAtCave == caveAddress + prologue + patch.size + prologue

SizeOf(s) == IF s = <<>> THEN 0 ELSE s[Len(s)].pos + s[Len(s)].len

-----------------------------------------------------------------------------
(* The registers: a register is saved once, the stack pointer never.         *)
SaveRegister ==
  /\ doing = "save"
  /\ patch.preserve
  /\ operand \in DOMAIN patch.writes
  /\ LET r == patch.writes[operand]
     IN IF r = Stack \/ r \in Range(clobbered)
        THEN UNCHANGED <<clobbered, prologue>>
        ELSE /\ clobbered' = Append(clobbered, r)
             /\ prologue' = prologue + PushLength(r)
  /\ operand' = operand + 1
  /\ UNCHANGED <<job, doing, next, offset, relocated, back>>

RegistersSaved ==
  /\ doing = "save"
  /\ patch.preserve => operand > Len(patch.writes)
  /\ doing' = "steal"
  /\ UNCHANGED <<job, operand, clobbered, prologue, next, offset, relocated, back>>

-----------------------------------------------------------------------------
(* Relocate and Measure: whole instructions until the jump has room.         *)

Stealing == doing = "steal" /\ offset < jmpBytes.len

(* MUTANT of Goes: every other instruction is skipped.                       *)
Goes_Twice ==
  /\ next' = next + 2
  /\ offset' = offset + program[next].len
  /\ UNCHANGED <<job, doing, operand, clobbered, prologue, back>>

Goes ==
  /\ next' = next + 1
  /\ offset' = offset + program[next].len
  /\ UNCHANGED <<job, doing, operand, clobbered, prologue, back>>

Refused ==
  /\ doing' = "refused"
  /\ UNCHANGED <<job, operand, clobbered, prologue, next, offset, relocated, back>>

(* Not decoded, or no bytes left.                                            *)
Undecodable ==
  /\ Stealing
  /\ next > Len(program)
  /\ Refused

(* Measure: the instruction is dropped.                                      *)
Drop ==
  /\ Stealing
  /\ ~job.keep
  /\ next \in DOMAIN program
  /\ Goes
  /\ UNCHANGED relocated

Here == site + offset
There == stolenAtCave + SizeOf(relocated)

(* The field that refers to the same address from the cave.                  *)
Shifted(i) == (Here + i.len + i.disp) - (There + i.len)

Reaches(i) ==
  CASE i.kind = "plain" -> TRUE
    [] i.kind = "odd" -> FALSE
    [] i.kind = "short" -> InRange(Shifted(i), Rel8)
    [] OTHER -> InRange(Shifted(i), Rel32)

Fixed(i) ==
  CASE i.kind = "plain" -> i.disp
    [] i.kind = "short" -> Signed(Shifted(i), Rel8)
    [] OTHER -> Signed(Shifted(i), Rel32)

(* The instruction is moved, its field recomputed.                           *)
Move ==
  /\ Stealing
  /\ job.keep
  /\ next \in DOMAIN program
  /\ LET i == program[next]
     IN /\ Reaches(i)
        /\ relocated' = Append(relocated,
                               [i EXCEPT !.pos = SizeOf(relocated), !.disp = Fixed(i)])
  /\ Goes

(* The field cannot be recomputed.                                           *)
OutOfReach ==
  /\ Stealing
  /\ job.keep
  /\ next \in DOMAIN program
  /\ ~Reaches(program[next])
  /\ Refused

Stolen ==
  /\ doing = "steal"
  /\ offset >= jmpBytes.len
  /\ doing' = "assemble"
  /\ UNCHANGED <<job, operand, clobbered, prologue, next, offset, relocated, back>>

-----------------------------------------------------------------------------
(* The cave: prologue, patch, epilogue, the moved code and the jump back.    *)

relocatedAt == prologue + patch.size + prologue

BackJump == JumpBytes(caveAddress + relocatedAt + SizeOf(relocated), site + offset)

Assemble ==
  /\ doing = "assemble"
  /\ relocatedAt + SizeOf(relocated) + BackJump.len <= CAVE_SIZE
  /\ back' = [BackJump EXCEPT !.pos = relocatedAt + SizeOf(relocated)]
  /\ doing' = "built"
  /\ UNCHANGED <<job, operand, clobbered, prologue, next, offset, relocated>>

TooLarge ==
  /\ doing = "assemble"
  /\ relocatedAt + SizeOf(relocated) + BackJump.len > CAVE_SIZE
  /\ Refused

CaveCodeNext ==
  \/ SaveRegister
  \/ RegistersSaved
  \/ Undecodable
  \/ Drop
  \/ Move
  \/ OutOfReach
  \/ Stolen
  \/ Assemble
  \/ TooLarge

CaveCodeSpec == CaveCodeInit /\ [][CaveCodeNext]_caveCodeVars

-----------------------------------------------------------------------------
(* What the processor makes of an address: 32-bit ones wrap.                 *)
Address(a) == IF wide THEN a ELSE a % (2 * Rel32)

(* Where a jump placed at an address leads.                                  *)
Lands(place, j) == IF j.far THEN j.to ELSE Address(place + j.len + j.to)

(* What an instruction of a code placed at an address refers to.             *)
Refers(place, i) == Address(place + i.pos + i.len + i.disp)

(* The game enters the cave.                                                 *)
EntersCave == Lands(site, jmpBytes) = caveAddress

(* It comes back behind the stolen bytes, on an instruction, and the stolen  *)
(* bytes have room for the jump.                                             *)
ComesBack ==
  /\ Lands(caveAddress + back.pos, back) = Address(site + offset)
  /\ offset >= jmpBytes.len
  /\ \E k \in DOMAIN program : offset = program[k].pos + program[k].len

(* The addresses between the ends of the stolen bytes: the jump lies there   *)
(* now, with filler behind it.  The site itself is not among them: who goes  *)
(* there enters the cave.                                                    *)
UnderTheJump == {Address(site + d) : d \in 1..(offset - 1)}

(* What was stolen is in the cave, one after another from the place it was   *)
(* computed for.  What it refers to outside the stolen bytes it still refers *)
(* to; Relocate keeps references between them as well, NeverIntoTheJump.     *)
MovesFaithfully ==
  /\ job.keep => Len(relocated) = next - 1
  /\ \A k \in DOMAIN relocated :
       LET old == program[k]
           new == relocated[k]
       IN /\ new.kind = old.kind /\ new.len = old.len /\ new.pos = old.pos
          /\ old.kind # "plain" /\ Refers(site, old) \notin UnderTheJump =>
               Refers(caveAddress + relocatedAt, new) = Refers(site, old)

(* The registers the patch writes are saved.                                 *)
SavesRegisters ==
  patch.preserve => \A k \in DOMAIN patch.writes : patch.writes[k] \in Range(clobbered) \cup {Stack}

(* A cave that is written is entered and left at the right addresses, saves  *)
(* the registers, and its moved code refers to what it referred to outside   *)
(* the stolen bytes, whatever the place, the distance, the instructions and  *)
(* the options: a field that does not reach is refused (Relocator.cpp:88,    *)
(* :115, :133).                                                              *)
CaveIsFaithful ==
  doing = "built" =>
    /\ EntersCave /\ ComesBack /\ MovesFaithfully /\ SavesRegisters
    /\ back.pos + back.len <= CAVE_SIZE

(* A reference that cannot be recomputed is refused and never spoils the     *)
(* code (Relocator.h:23-25), so no moved instruction leads between the ends  *)
(* of the bytes the jump was written over.                                   *)
NeverIntoTheJump ==
  doing = "built" =>
    \A k \in DOMAIN relocated :
      relocated[k].kind # "plain" =>
        Refers(caveAddress + relocatedAt, relocated[k]) \notin UnderTheJump
=============================================================================
