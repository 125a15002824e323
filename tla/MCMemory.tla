------------------------------ MODULE MCMemory ------------------------------
(* Small memories for ScanSignature, AllocNear, ValuePatch, PageWrite and    *)
(* SharedSite: a behaviour is one call of the first or of the second, or a   *)
(* life of one of the others.                                                *)
EXTENDS ScanSignature, AllocNear, ValuePatch, PageWrite, MCSharedSite

MCRegions(c1, c2, k1, k2, k3) ==
  [kind |-> [a \in 1..6 |-> IF a < c1 THEN k1 ELSE IF a < c2 THEN k2 ELSE k3],
   next |-> [a \in 1..6 |-> IF a < c1 THEN c1 ELSE IF a < c2 THEN c2 ELSE 7]]

(* Three regions of any kinds: of one, three and two bytes, or one, two and  *)
(* three.                                                                    *)
MCLayouts ==
  {MCRegions(c[1], c[2], k1, k2, k3) :
     c \in {<<2, 5>>, <<2, 4>>}, k1, k2, k3 \in {"code", "data", "gap"}}

MCPatterns == {<<1>>, <<1, 1>>, <<Any, 1, 0>>, <<Any, Any>>, <<>>}

MCRanges == {<<1, 6>>, <<2, 4>>, <<1, 1>>}

(* Ten pages, two to an allocation unit; the first unit is never free.       *)
MCMaps == SUBSET {4, 6, 8, 10, 12, 14, 16, 18}
MCTargets == {3, 6, 11, 13, 19}

(* Two pages of one or of two kinds: constants, data, code, a cave.          *)
MCOwnRights ==
  [1..2 -> {{"read"}, {"read", "write"}, {"read", "execute"}, {"read", "write", "execute"}}]

MCSpans == {<<1, 1>>, <<2, 2>>, <<1, 2>>}

(* What the parts at rest rest in.                                           *)
ASSUME RestAssumption ==
  /\ Layouts # {} /\ 0 \in Bytes /\ <<1, 1>> \in Ranges /\ <<1, 1>> \in Patterns
  /\ {} \in Maps /\ 6 \in Targets
  /\ GamePids # {}

ScanIdle ==
  /\ mem = CHOOSE m \in Layouts : TRUE
  /\ byte = [a \in Addrs |-> 0]
  /\ start = 1 /\ size = 1 /\ pattern = <<1, 1>> /\ execOnly = FALSE
  /\ cursor = 1 /\ regionEnd = 0 /\ chunk = 0 /\ bufEnd = 0 /\ pos = 0
  /\ at = "done" /\ match = 0

AllocIdle ==
  /\ free = {} /\ target = 6 /\ probe = 6 /\ way = "done" /\ block = 0

(* The worker and all games have ended.                                      *)
ValueIdle ==
  /\ alive = None /\ started = MaxStarts
  /\ gamePid = [i \in Instances |-> CHOOSE p \in GamePids : TRUE]
  /\ moduleAt = [i \in Instances |-> None]
  /\ link = [x \in Places |-> Broken]
  /\ held = {} /\ moves = 0
  /\ handle = None /\ knownPid = None /\ stopped = TRUE /\ freeze = FALSE
  /\ active = FALSE /\ basePid = None /\ modBase = None
  /\ doing = "nothing" /\ opened = None /\ left = 0 /\ current = Root

PageIdle ==
  /\ PageInit
  /\ \A p \in GamePages : own[p] = All

SiteIdle == SiteInit

VARIABLE part    \* the one that moves

MCInit ==
  \/ part = "scan" /\ ScanInit /\ AllocIdle /\ ValueIdle /\ PageIdle /\ SiteIdle
  \/ part = "alloc" /\ AllocInit /\ ScanIdle /\ ValueIdle /\ PageIdle /\ SiteIdle
  \/ part = "value" /\ ValueInit /\ ScanIdle /\ AllocIdle /\ PageIdle /\ SiteIdle
  \/ part = "pages" /\ PageInit /\ ScanIdle /\ AllocIdle /\ ValueIdle /\ SiteIdle
  \/ part = "site" /\ SiteInit /\ ScanIdle /\ AllocIdle /\ ValueIdle /\ PageIdle

Rest(p) ==
  /\ part = p
  /\ UNCHANGED part
  /\ p # "scan" => UNCHANGED scanVars
  /\ p # "alloc" => UNCHANGED allocVars
  /\ p # "value" => UNCHANGED valueVars
  /\ p # "pages" => UNCHANGED pageVars
  /\ p # "site" => UNCHANGED siteVars

MCNext ==
  \/ Rest("scan") /\ ScanNext
  \/ Rest("alloc") /\ AllocNext
  \/ Rest("value") /\ ValueNext
  \/ Rest("pages") /\ PageNext
  \/ Rest("site") /\ SiteNext

MCVars == <<part, scanVars, allocVars, valueVars, pageVars, siteVars>>

(* Searches go on, and the worker goes on with its rounds.                   *)
MCSpec ==
  /\ MCInit
  /\ [][MCNext]_MCVars
  /\ WF_MCVars(Rest("scan") /\ ScanNext)
  /\ WF_MCVars(Rest("alloc") /\ AllocNext)
  /\ WF_MCVars(Rest("value") /\ (GameLost \/ Tick \/ CallGoesOn))

(* The variables have their types.                                           *)
MCTypeOK == ScanTypeOK /\ AllocTypeOK /\ ValueTypeOK /\ PageTypeOK /\ SiteTypeOK

(* Every search for a signature and every search for a place comes to an     *)
(* end (MemoryAccess.cpp:281, MemoryAccess.cpp:375).                         *)
CallsEnd == ScanEnds /\ AllocEnds
=============================================================================
