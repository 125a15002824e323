----------------------------- MODULE SharedSite -----------------------------
(***************************************************************************)
(* Code patches of several options in the same stretch of the game's code:  *)
(* the signature a patch is located by (patches/Patch.cpp), the bytes it    *)
(* remembers and overwrites, and the order in which an option applies and   *)
(* takes back its patches (cheats/CheatOption.cpp).  Bytes matter only as   *)
(* far as who wrote them; a patch never writes the byte that is there.  The *)
(* game ends only between calls: ends in the middle belong to CheatOption.  *)
(***************************************************************************)
EXTENDS Naturals, Sequences

CONSTANTS
  Options,
  SitePlaces,     \* the bytes of the game's code that matter
  Orig,           \* a byte as the game has it
  PatchSeq        \* PatchSeq[o][j]: the places its signature compares (checks)
                  \* and the places it overwrites (range)

Patch == [checks: SUBSET SitePlaces, range: SUBSET SitePlaces]

ASSUME SiteAssumption ==
  /\ PatchSeq \in [Options -> Seq(Patch)]
  /\ Orig \notin Options \X Nat

VARIABLES
  bytes,   \* bytes[i]: Orig, or <<o, j>> when patch j of option o wrote it
  depth,   \* depth[o]: patches 1..depth[o] of option o stand
  saved,   \* saved[<<o, j>>]: originalBytes
  busy     \* the option being switched, and how: "on", "back", "off"

siteVars == <<bytes, depth, saved, busy>>

NoOption == [opt |-> Orig, way |-> "none"]
Ids == UNION {{o} \X (1..Len(PatchSeq[o])) : o \in Options}
Values == {Orig} \cup (Options \X Nat)

Checks(o, j) == PatchSeq[o][j].checks
Site(o, j) == PatchSeq[o][j].range

SiteTypeOK ==
  /\ bytes \in [SitePlaces -> Values]
  /\ depth \in [Options -> Nat]
  /\ \A o \in Options : depth[o] <= Len(PatchSeq[o])
  /\ saved \in [Ids -> [SitePlaces -> Values]]
  /\ busy \in {NoOption} \cup [opt: Options, way: {"on", "back", "off"}]

SiteInit ==
  /\ bytes = [i \in SitePlaces |-> Orig]
  /\ depth = [o \in Options |-> 0]
  /\ saved = [p \in Ids |-> [i \in SitePlaces |-> Orig]]
  /\ busy = NoOption

-----------------------------------------------------------------------------
(* MUTANT of Located: a remembered match is used without comparing again.    *)
Located_Unchecked(o, j) == TRUE

(* Locate: the signature is where it was found first, and nowhere else (a    *)
(* second match is only logged); if any byte it compares was overwritten it  *)
(* is not found, "taken by another cheat".                                   *)
Located(o, j) == \A i \in Checks(o, j) : bytes[i] = Orig

TurnOn(o) ==
  /\ busy = NoOption
  /\ depth[o] = 0
  /\ busy' = [opt |-> o, way |-> "on"]
  /\ UNCHANGED <<bytes, depth, saved>>

(* MUTANT of ApplyNext: the position is advanced twice.                      *)
ApplyNext_SkipsOne ==
  /\ busy.way = "on"
  /\ LET o == busy.opt
         j == depth[o] + 1
     IN /\ j <= Len(PatchSeq[o])
        /\ Located(o, j)
        /\ saved' = [saved EXCEPT ![<<o, j>>] = bytes]
        /\ bytes' = [i \in SitePlaces |->
                       IF i \in Site(o, j) THEN <<o, j>> ELSE bytes[i]]
        /\ depth' = [depth EXCEPT ![o] = j + 1]
  /\ UNCHANGED busy

(* ApplyAll: the next patch is found, remembers the bytes and overwrites.    *)
ApplyNext ==
  /\ busy.way = "on"
  /\ LET o == busy.opt
         j == depth[o] + 1
     IN /\ j <= Len(PatchSeq[o])
        /\ Located(o, j)
        /\ saved' = [saved EXCEPT ![<<o, j>>] = bytes]
        /\ bytes' = [i \in SitePlaces |->
                       IF i \in Site(o, j) THEN <<o, j>> ELSE bytes[i]]
        /\ depth' = [depth EXCEPT ![o] = j]
  /\ UNCHANGED busy

(* It is not found, or a read, an allocation or a write fails.               *)
ApplyFails ==
  /\ busy.way = "on"
  /\ depth[busy.opt] < Len(PatchSeq[busy.opt])
  /\ busy' = [busy EXCEPT !.way = "back"]
  /\ UNCHANGED <<bytes, depth, saved>>

SwitchedOn ==
  /\ busy.way = "on"
  /\ depth[busy.opt] = Len(PatchSeq[busy.opt])
  /\ busy' = NoOption
  /\ UNCHANGED <<bytes, depth, saved>>

TurnOff(o) ==
  /\ busy = NoOption
  /\ depth[o] > 0
  /\ busy' = [opt |-> o, way |-> "off"]
  /\ UNCHANGED <<bytes, depth, saved>>

(* MUTANT of RestoreNext: the patches are taken back in the order they were  *)
(* applied in.                                                               *)
RestoreNext_Forwards ==
  /\ busy.way \in {"back", "off"}
  /\ LET o == busy.opt
         j == Len(PatchSeq[o]) + 1 - depth[o]
     IN /\ depth[o] > 0
        /\ bytes' = [i \in SitePlaces |->
                       IF i \in Site(o, j) THEN saved[<<o, j>>][i] ELSE bytes[i]]
        /\ depth' = [depth EXCEPT ![o] = @ - 1]
  /\ UNCHANGED <<saved, busy>>

(* RestoreAll, and the rollback of ApplyAll: the last patch that stands      *)
(* writes back what it remembers, whatever is there now.                     *)
RestoreNext ==
  /\ busy.way \in {"back", "off"}
  /\ LET o == busy.opt
         j == depth[o]
     IN /\ j > 0
        /\ bytes' = [i \in SitePlaces |->
                       IF i \in Site(o, j) THEN saved[<<o, j>>][i] ELSE bytes[i]]
        /\ depth' = [depth EXCEPT ![o] = j - 1]
  /\ UNCHANGED <<saved, busy>>

SwitchedOff ==
  /\ busy.way \in {"back", "off"}
  /\ depth[busy.opt] = 0
  /\ busy' = NoOption
  /\ UNCHANGED <<bytes, depth, saved>>

(* The game is gone: Reset of every patch; the next game has its own code.   *)
GameEnds ==
  /\ busy = NoOption
  /\ bytes' = [i \in SitePlaces |-> Orig]
  /\ depth' = [o \in Options |-> 0]
  /\ UNCHANGED <<saved, busy>>

SiteNext ==
  \/ \E o \in Options : TurnOn(o) \/ TurnOff(o)
  \/ ApplyNext
  \/ ApplyFails
  \/ SwitchedOn
  \/ RestoreNext
  \/ SwitchedOff
  \/ GameEnds

SiteSpec == SiteInit /\ [][SiteNext]_siteVars

-----------------------------------------------------------------------------
(* What a registry must give: where patches of two options overwrite the     *)
(* same byte, each one's signature compares a byte the other overwrites.     *)
(* Every pair of cheats with the same signature has it, as those of          *)
(* registry/GameCheats.cpp, if the signature reaches over the whole site.    *)
Guarded ==
  \A o, q \in Options : o # q =>
    \A j \in 1..Len(PatchSeq[o]), k \in 1..Len(PatchSeq[q]) :
      Site(o, j) \cap Site(q, k) # {} => Site(q, k) \cap Checks(o, j) # {}

(* Switching off, or failing to switch on, returns the code byte for byte,   *)
(* in whatever order the options are switched: every byte that is not the    *)
(* game's own belongs to a patch that stands.                                *)
OffMeansOriginal ==
  \A i \in SitePlaces :
    \/ bytes[i] = Orig
    \/ \E o \in Options : \E j \in 1..depth[o] : bytes[i] = <<o, j>> /\ i \in Site(o, j)

(* No option overwrites, or takes back, bytes of another one that is on.     *)
OnMeansUndisturbed ==
  \A o \in Options : \A j \in 1..depth[o] : \A i \in Site(o, j) :
    \E k \in j..depth[o] : bytes[i] = <<o, k>>
=============================================================================
