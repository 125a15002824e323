---------------------------- MODULE WindowProofs ----------------------------
(***************************************************************************)
(* Proofs about the parts around the window, for every keyboard and every   *)
(* list of hotkeys, any number of options that fail, of voices and of lines *)
(* of the log.                                                              *)
(***************************************************************************)
EXTENDS MCWindow, SequenceTheorems, TLAPS

-----------------------------------------------------------------------------
(* Hotkeys.                                                                  *)

LEMMA CombosType ==
  /\ DOMAIN Combos = 1..Len(Combos) /\ Len(Combos) \in Nat /\ 1 \in DOMAIN Combos
  /\ \A h \in DOMAIN Combos : /\ DOMAIN Combos[h] = 1..Len(Combos[h]) /\ Len(Combos[h]) \in Nat
                              /\ \A i \in 1..Len(Combos[h]) : Combos[h][i] \in Keys
<1>1. Combos \in Seq(Seq(Keys)) /\ Combos # <<>>
  BY HotkeyAssumption DEF HotkeyAssumption
<1>2. DOMAIN Combos = 1..Len(Combos) /\ Len(Combos) \in Nat /\ 1 \in DOMAIN Combos
  BY <1>1
<1>3. \A h \in DOMAIN Combos : Combos[h] \in Seq(Keys)
  BY <1>1
<1>4. ASSUME NEW h \in DOMAIN Combos
      PROVE  /\ DOMAIN Combos[h] = 1..Len(Combos[h]) /\ Len(Combos[h]) \in Nat
             /\ \A i \in 1..Len(Combos[h]) : Combos[h][i] \in Keys
  BY <1>3
<1> QED
  BY <1>2, <1>4

LEMMA PollTypes ==
  ASSUME HotkeyTypeOK, Poll
  PROVE  HotkeyTypeOK'
<1>0. /\ polling \in 1..Len(Combos) /\ Len(Combos) \in Nat
      /\ reading \in 1..(Len(Combos[polling]) + 1)
      /\ \A h \in 1..Len(Combos) : Len(Combos[h]) \in Nat
      /\ Hotkeys = 1..Len(Combos)
  BY CombosType DEF HotkeyTypeOK, Hotkeys
<1>1. CASE NextHotkey
  <2>1. polling' \in 1..Len(Combos) /\ reading' = 1
    BY <1>0, <1>1 DEF NextHotkey
  <2>2. reading' \in 1..(Len(Combos[polling']) + 1)
    BY <1>0, <2>1
  <2> QED
    BY <1>0, <2>1, <2>2
    DEF HotkeyTypeOK, Poll, ReadKeyDown, ReadKeyUp, NoKeys, StaysSilent, Fires
<1>2. CASE ReadKeyDown
  BY <1>0, <1>2 DEF HotkeyTypeOK, ReadKeyDown
<1> QED
  BY <1>1, <1>2 DEF Poll, ReadKeyUp, NoKeys, StaysSilent, Fires

LEMMA HotkeyTypesInit == HotkeyInit => HotkeyTypeOK
<1> SUFFICES ASSUME HotkeyInit PROVE HotkeyTypeOK
  OBVIOUS
<1>1. polling = 1 /\ reading = 1 /\ 1 \in Hotkeys /\ Len(Combos[1]) \in Nat
  BY CombosType DEF HotkeyInit, Hotkeys
<1>2. reading \in 1..(Len(Combos[polling]) + 1)
  BY <1>1
<1> QED
  BY <1>1, <1>2 DEF HotkeyInit, HotkeyTypeOK

LEMMA HotkeyTypesNext == HotkeyTypeOK /\ [HotkeyNext]_hotkeyVars => HotkeyTypeOK'
<1> SUFFICES ASSUME HotkeyTypeOK, [HotkeyNext]_hotkeyVars PROVE HotkeyTypeOK'
  OBVIOUS
<1>1. CASE UNCHANGED hotkeyVars
  BY <1>1 DEF hotkeyVars, HotkeyTypeOK
<1>2. CASE (\E k \in Keys : KeyDown(k) \/ KeyUp(k)) \/ SetSuppressed
  BY <1>2 DEF KeyDown, KeyUp, SetSuppressed, HotkeyTypeOK
<1> QED
  BY <1>1, <1>2, PollTypes DEF HotkeyNext

(* Every poll keeps to its hotkey and to the keys of that hotkey.            *)
THEOREM HotkeyTypeCorrect == HotkeySpec => []HotkeyTypeOK
BY HotkeyTypesInit, HotkeyTypesNext, PTL DEF HotkeySpec

(* A press that was delivered or typed is still down and still remembered.   *)
SpentIsHeld == \A h \in spent : Pressed(h) /\ h \in wasDown

LEMMA SpentNext == HotkeyTypeOK /\ SpentIsHeld /\ [HotkeyNext]_hotkeyVars => SpentIsHeld'
<1> SUFFICES ASSUME HotkeyTypeOK, SpentIsHeld, [HotkeyNext]_hotkeyVars PROVE SpentIsHeld'
  OBVIOUS
<1>1. CASE UNCHANGED <<down, wasDown, spent>>
  BY <1>1 DEF SpentIsHeld, Pressed
<1>2. CASE \E k \in Keys : KeyDown(k) \/ KeyUp(k)
  BY <1>2 DEF KeyDown, KeyUp, SpentIsHeld, Pressed
<1>3. CASE ReadKeyUp \/ NoKeys
  <2>1. ~Pressed(polling)
    <3>1. CASE NoKeys
      BY <3>1 DEF NoKeys, Pressed
    <3>2. CASE ReadKeyUp
      <4>1. Combos[polling][reading] \in KeysOf(polling)
        BY <3>2, CombosType DEF HotkeyTypeOK, Hotkeys, ReadKeyUp, KeysOf
      <4> QED
        BY <3>2, <4>1 DEF ReadKeyUp, Pressed
    <3> QED
      BY <1>3, <3>1, <3>2
  <2> QED
    BY <1>3, <2>1 DEF ReadKeyUp, NoKeys, SpentIsHeld, Pressed
<1>4. CASE StaysSilent \/ Fires
  BY <1>4 DEF StaysSilent, Fires, SpentIsHeld, Pressed
<1> QED
  BY <1>1, <1>2, <1>3, <1>4 DEF HotkeyNext, Poll, SetSuppressed, ReadKeyDown, hotkeyVars

(* One press of a combination switches its option at most once, whatever the *)
(* keys do between and during the polls (Hotkey.cpp, JustPressed).           *)
THEOREM PressFiresOnce == HotkeySpec => FiresOncePerPress
<1>1. HotkeyInit => SpentIsHeld
  BY DEF HotkeyInit, SpentIsHeld
<1>2. SpentIsHeld => [Fires => polling \notin spent]_hotkeyVars
  BY DEF SpentIsHeld, Fires
<1> QED
  BY <1>1, <1>2, SpentNext, HotkeyTypeCorrect, PTL DEF HotkeySpec, FiresOncePerPress

-----------------------------------------------------------------------------
(* Sounds.                                                                   *)

(* Who may be in Play when: both at once only where a value field plays, and *)
(* then that has been recorded.                                              *)
Turns ==
  /\ phase = "run" /\ ~ValueFields => NotPlaying("window")
  /\ phase # "run" => NotPlaying("worker")
  /\ phase \in {"exit", "over"} => NotPlaying("window")
  /\ ~met => OneThreadPlays

(* One after the other, the engine is started where there is none and one    *)
(* voice is made at a time.                                                  *)
OneAtATime ==
  /\ \A t \in Threads :
       /\ playing[t] = "starts" => impl = NoEngine
       /\ playing[t] = "submits" => \E v \in Voices : voice[v] = "made"
  /\ \A v, w \in Voices : voice[v] = "made" /\ voice[w] = "made" => v = w
  /\ phase = "over" => impl = NoEngine /\ active = {}

SoundInv ==
  /\ AudioTypeOK
  /\ Turns
  /\ ~met => OneAtATime /\ VoicesAreKept /\ OneEngine

LEMMA SoundInit == AudioInit => SoundInv
<1> SUFFICES ASSUME AudioInit PROVE SoundInv
  OBVIOUS
<1>1. AudioTypeOK
  <2>1. voice \in [Voices -> {"none", "made", "sounds", "silent", "destroyed"}]
    BY DEF AudioInit
  <2>2. playing \in [Threads -> {"no", "starts", "engine", "voice", "submits"}]
    BY DEF AudioInit
  <2>3. phase \in Phases /\ impl \in 0..2 /\ engines \subseteq 1..2 /\ active \subseteq Voices
    BY DEF AudioInit, Phases, NoEngine
  <2>4. sound \in BOOLEAN /\ met \in BOOLEAN
    BY Zenon DEF AudioInit
  <2> QED
    BY <2>1, <2>2, <2>3, <2>4, Zenon DEF AudioTypeOK
<1>2. Turns
  BY DEF AudioInit, Turns, OneThreadPlays, NotPlaying, Threads
<1>3. OneAtATime /\ VoicesAreKept /\ OneEngine
  BY DEF AudioInit, OneAtATime, VoicesAreKept, OneEngine
<1> QED
  BY <1>1, <1>2, <1>3 DEF SoundInv

(* Whatever the threads do, types are kept.                                  *)
LEMMA AudioTypesNext == AudioTypeOK /\ [AudioNext]_audioVars => AudioTypeOK'
<1> SUFFICES ASSUME AudioTypeOK, [AudioNext]_audioVars PROVE AudioTypeOK'
  OBVIOUS
<1>1. ASSUME NEW t \in Threads,
             \/ Play(t) \/ CreateEngine(t) \/ NoDevice(t) \/ NoSound(t) \/ NoVoice(t)
      PROVE  AudioTypeOK'
  <2>1. playing' \in [Threads -> {"no", "starts", "engine", "voice", "submits"}]
    BY <1>1 DEF Play, CreateEngine, NoDevice, NoSound, NoVoice, Go, AudioTypeOK
  <2>2. impl' \in 0..2 /\ engines' \subseteq 1..2
    <3>1. CASE CreateEngine(t)
      <4>1. PICK e \in 1..2 : engines' = engines \cup {e} /\ impl' = e
        BY <3>1 DEF CreateEngine
      <4> QED
        BY <4>1 DEF AudioTypeOK
    <3> QED
      BY <1>1, <3>1 DEF Play, NoDevice, NoSound, NoVoice, AudioTypeOK
  <2> QED
    BY <1>1, <2>1, <2>2 DEF Play, CreateEngine, NoDevice, NoSound, NoVoice, AudioTypeOK
<1>2. ASSUME NEW t \in Threads, ReapFinishedVoices(t) PROVE AudioTypeOK'
  <2>1. voice' = [v \in Voices |-> IF v \in {w \in active : voice[w] = "silent"}
                                   THEN "destroyed" ELSE voice[v]]
    BY <1>2 DEF ReapFinishedVoices
  <2>2. voice' \in [Voices -> {"none", "made", "sounds", "silent", "destroyed"}]
    BY <2>1 DEF AudioTypeOK
  <2> QED
    BY <1>2, <2>2 DEF ReapFinishedVoices, Go, AudioTypeOK
<1>3. ASSUME NEW t \in Threads, CreateSourceVoice(t) \/ SubmitFails(t) PROVE AudioTypeOK'
  <2>1. PICK v \in Voices : \/ voice' = [voice EXCEPT ![v] = "made"]
                            \/ voice' = [voice EXCEPT ![v] = "destroyed"]
    BY <1>3 DEF CreateSourceVoice, SubmitFails
  <2>2. voice' \in [Voices -> {"none", "made", "sounds", "silent", "destroyed"}]
    BY <2>1 DEF AudioTypeOK
  <2> QED
    BY <1>3, <2>2 DEF CreateSourceVoice, SubmitFails, Go, AudioTypeOK
<1>4. ASSUME NEW t \in Threads, VoiceStarts(t) PROVE AudioTypeOK'
  <2>1. PICK v \in Voices : /\ voice' = [voice EXCEPT ![v] = "sounds"]
                            /\ active' = active \cup {v}
    BY <1>4 DEF VoiceStarts
  <2> QED
    BY <1>4, <2>1 DEF VoiceStarts, Go, AudioTypeOK
<1>5. ASSUME NEW v \in Voices, VoiceEnds(v) PROVE AudioTypeOK'
  BY <1>5 DEF VoiceEnds, AudioTypeOK
<1>6. CASE WorkerJoined \/ DisableAllBegins \/ DisableAllEnds
  BY <1>6 DEF WorkerJoined, DisableAllBegins, DisableAllEnds, AudioTypeOK, Phases
<1>7. CASE Shutdown
  BY <1>7 DEF Shutdown, AudioTypeOK, Phases, NoEngine
<1>8. CASE UNCHANGED audioVars
  BY <1>8 DEF audioVars, AudioTypeOK
<1> QED
  BY <1>1, <1>2, <1>5, <1>6, <1>8, <1>3, <1>4, <1>7 DEF AudioNext

(* A call of Play goes on, and the other thread stays where it is.           *)
Calls(t) ==
  \/ Play(t) \/ CreateEngine(t) \/ NoDevice(t) \/ NoSound(t) \/ ReapFinishedVoices(t)
  \/ CreateSourceVoice(t) \/ NoVoice(t) \/ SubmitFails(t) \/ VoiceStarts(t)

LEMMA CallsChange ==
  ASSUME AudioTypeOK, NEW t \in Threads, Calls(t)
  PROVE  /\ phase' = phase /\ sound' = sound
         /\ playing'[t] # playing[t]
         /\ \A u \in Threads : u # t => playing'[u] = playing[u]
         /\ \/ playing[t] # "no" /\ met' = met
            \/ /\ Play(t)
               /\ met' = (met \/ \E u \in Threads \ {t} : playing[u] # "no")
BY DEF Calls, AudioTypeOK, Go, Play, CreateEngine, NoDevice, NoSound, ReapFinishedVoices,
   CreateSourceVoice, NoVoice, SubmitFails, VoiceStarts

LEMMA TurnsNext ==
  ASSUME AudioTypeOK, Turns, [AudioNext]_audioVars
  PROVE  Turns' /\ (~met' => ~met)
<1>1. ASSUME NEW t \in Threads, Calls(t) PROVE Turns' /\ (~met' => ~met)
  <2>1. /\ phase' = phase
        /\ \A u \in Threads : u # t => playing'[u] = playing[u]
        /\ ~met' => ~met
    BY <1>1, CallsChange
  <2>2. CASE playing[t] # "no" /\ met' = met
    BY <2>1, <2>2 DEF Turns, OneThreadPlays, NotPlaying, Threads
  <2>3. CASE Play(t) /\ met' = (met \/ \E u \in Threads \ {t} : playing[u] # "no")
    <3>1. MayPlay(t)
      BY <2>3 DEF Play
    <3>2. ~met' => \A u \in Threads : u # t => playing[u] = "no"
      BY <2>3
    <3>3. ~met' => OneThreadPlays'
      BY <2>1, <3>2 DEF OneThreadPlays, NotPlaying
    <3> QED
      BY <2>1, <3>1, <3>3 DEF Turns, MayPlay, NotPlaying, Threads
  <2> QED
    BY <1>1, <2>2, <2>3, CallsChange
<1>2. CASE \E v \in Voices : VoiceEnds(v)
  BY <1>2 DEF VoiceEnds, Turns, OneThreadPlays, NotPlaying
<1>3. CASE WorkerJoined \/ DisableAllBegins \/ DisableAllEnds \/ Shutdown
  BY <1>3 DEF WorkerJoined, DisableAllBegins, DisableAllEnds, Shutdown, Turns, OneThreadPlays, NotPlaying
<1>4. CASE UNCHANGED audioVars
  BY <1>4 DEF audioVars, Turns, OneThreadPlays, NotPlaying
<1> QED
  BY <1>1, <1>2, <1>3, <1>4 DEF AudioNext, Calls

(* Before the threads have met the one that plays is alone.                  *)
LEMMA PlaysAlone ==
  ASSUME AudioTypeOK, Turns, NEW t \in Threads, Calls(t), ~met'
  PROVE  /\ \A u \in Threads : u # t => playing[u] = "no" /\ playing'[u] = "no"
         /\ playing[t] = "no" => Play(t)
         /\ phase \notin {"exit", "over"}
<1>1. /\ phase' = phase
      /\ \A u \in Threads : u # t => playing'[u] = playing[u]
      /\ (playing[t] # "no" /\ met' = met) \/ Play(t)
      /\ Play(t) => \A u \in Threads : u # t => playing[u] = "no"
  BY CallsChange DEF Play
<1>2. CASE playing[t] # "no" /\ met' = met
  BY <1>1, <1>2 DEF Turns, OneThreadPlays, NotPlaying, Threads
<1>3. CASE Play(t)
  BY <1>1, <1>3 DEF Play, MayPlay, Turns, OneThreadPlays, NotPlaying, Threads
<1> QED
  BY <1>1, <1>2, <1>3

LEMMA SoundSteps ==
  ASSUME SoundInv, NEW t \in Threads, Calls(t), ~met'
  PROVE  OneAtATime' /\ VoicesAreKept' /\ OneEngine'
<1>0. /\ AudioTypeOK /\ AudioTypeOK' /\ OneAtATime /\ VoicesAreKept /\ OneEngine
      /\ phase' = phase
  BY AudioTypesNext, TurnsNext, CallsChange DEF SoundInv, AudioNext, Calls
<1>a. /\ \A u \in Threads : u # t => playing[u] = "no" /\ playing'[u] = "no"
      /\ playing[t] = "no" => Play(t)
      /\ phase \notin {"exit", "over"}
  BY PlaysAlone DEF SoundInv
<1>m. ASSUME NEW v \in Voices, voice[v] = "made" PROVE playing[t] = "submits"
  BY <1>0, <1>a, <1>m DEF VoicesAreKept
<1>1. CASE Play(t) \/ NoDevice(t) \/ NoSound(t) \/ NoVoice(t)
  <2>1. /\ UNCHANGED <<voice, active, impl, engines>>
        /\ playing'[t] \in {"no", "starts", "engine"} /\ playing[t] # "submits"
        /\ playing'[t] = "starts" => impl = NoEngine
    BY <1>0, <1>1 DEF AudioTypeOK, Play, NoDevice, NoSound, NoVoice, Go
  <2>2. OneAtATime'
    BY <1>0, <1>a, <2>1 DEF OneAtATime
  <2>3. VoicesAreKept'
    BY <1>0, <1>m, <2>1 DEF VoicesAreKept
  <2>4. OneEngine'
    BY <1>0, <2>1 DEF OneEngine
  <2> QED
    BY <2>2, <2>3, <2>4
<1>2. CASE CreateEngine(t)
  <2>1. PICK e \in 1..2 : engines' = engines \cup {e} /\ impl' = e
    BY <1>2 DEF CreateEngine
  <2>2. /\ UNCHANGED <<voice, active>>
        /\ playing[t] = "starts" /\ playing'[t] = "engine"
    BY <1>0, <1>2 DEF AudioTypeOK, CreateEngine, Go
  <2>3. OneAtATime'
    BY <1>0, <1>a, <2>2 DEF OneAtATime
  <2>4. VoicesAreKept'
    BY <1>0, <1>m, <2>2 DEF VoicesAreKept
  <2>5. OneEngine'
    BY <1>0, <2>1, <2>2 DEF OneAtATime, OneEngine, NoEngine
  <2> QED
    BY <2>3, <2>4, <2>5
<1>3. CASE ReapFinishedVoices(t)
  <2>1. /\ UNCHANGED <<impl, engines>> /\ playing[t] = "engine" /\ playing'[t] = "voice"
        /\ voice' = [v \in Voices |-> IF v \in {w \in active : voice[w] = "silent"}
                                      THEN "destroyed" ELSE voice[v]]
        /\ active' = active \ {v \in active : voice[v] = "silent"}
    BY <1>0, <1>3 DEF AudioTypeOK, ReapFinishedVoices, Go
  <2>2. \A v \in Voices : voice'[v] # "made"
    BY <1>m, <2>1
  <2>3. OneAtATime'
    BY <1>0, <1>a, <2>1, <2>2 DEF OneAtATime
  <2>4. VoicesAreKept'
    BY <1>0, <2>1, <2>2 DEF VoicesAreKept
  <2>5. OneEngine'
    BY <1>0, <2>1 DEF OneEngine
  <2> QED
    BY <2>3, <2>4, <2>5
<1>4. CASE CreateSourceVoice(t)
  <2>1. PICK v \in Voices : voice[v] = "none" /\ voice' = [voice EXCEPT ![v] = "made"]
    BY <1>4 DEF CreateSourceVoice
  <2>2. /\ UNCHANGED <<impl, engines, active>> /\ playing[t] = "voice" /\ playing'[t] = "submits"
    BY <1>0, <1>4 DEF AudioTypeOK, CreateSourceVoice, Go
  <2>3. /\ voice'[v] = "made"
        /\ \A w \in Voices : w # v => voice'[w] = voice[w] /\ voice'[w] # "made"
    BY <1>0, <1>m, <2>1, <2>2 DEF AudioTypeOK
  <2>4. OneAtATime'
    BY <1>0, <1>a, <2>2, <2>3 DEF OneAtATime
  <2>5. VoicesAreKept'
    BY <1>0, <2>1, <2>2, <2>3 DEF VoicesAreKept
  <2>6. OneEngine'
    BY <1>0, <2>2 DEF OneEngine
  <2> QED
    BY <2>4, <2>5, <2>6
<1>5. CASE SubmitFails(t) \/ VoiceStarts(t)
  <2>1. PICK v \in Voices :
          /\ voice[v] = "made"
          /\ \/ voice' = [voice EXCEPT ![v] = "destroyed"] /\ active' = active
             \/ voice' = [voice EXCEPT ![v] = "sounds"] /\ active' = active \cup {v}
    BY <1>5 DEF SubmitFails, VoiceStarts
  <2>2. /\ UNCHANGED <<impl, engines>> /\ playing[t] = "submits" /\ playing'[t] = "no"
    BY <1>0, <1>5 DEF AudioTypeOK, SubmitFails, VoiceStarts, Go
  <2>3. /\ voice'[v] \in {"destroyed", "sounds"} /\ (voice'[v] = "sounds" <=> v \in active')
        /\ \A w \in Voices : w # v => voice'[w] = voice[w] /\ voice'[w] # "made"
        /\ \A w \in Voices : w # v => (w \in active' <=> w \in active)
    BY <1>0, <2>1 DEF AudioTypeOK, OneAtATime, VoicesAreKept
  <2>4. OneAtATime'
    BY <1>0, <1>a, <2>2, <2>3 DEF OneAtATime
  <2>5. VoicesAreKept'
    BY <1>0, <2>2, <2>3 DEF VoicesAreKept
  <2>6. OneEngine'
    BY <1>0, <2>2 DEF OneEngine
  <2> QED
    BY <2>4, <2>5, <2>6
<1> QED
  BY <1>1, <1>2, <1>3, <1>4, <1>5 DEF Calls

LEMMA SoundNext == SoundInv /\ [AudioNext]_audioVars => SoundInv'
<1> SUFFICES ASSUME SoundInv, [AudioNext]_audioVars PROVE SoundInv'
  OBVIOUS
<1>0. AudioTypeOK /\ AudioTypeOK' /\ Turns /\ Turns' /\ (~met' => ~met)
  BY AudioTypesNext, TurnsNext DEF SoundInv
<1> SUFFICES ASSUME ~met' PROVE OneAtATime' /\ VoicesAreKept' /\ OneEngine'
  BY <1>0 DEF SoundInv
<1>b. OneAtATime /\ VoicesAreKept /\ OneEngine
  BY <1>0 DEF SoundInv
<1>1. CASE UNCHANGED audioVars
  BY <1>b, <1>1 DEF audioVars, OneAtATime, VoicesAreKept, OneEngine
<1>2. CASE \E v \in Voices : VoiceEnds(v)
  BY <1>0, <1>b, <1>2 DEF VoiceEnds, AudioTypeOK, OneAtATime, VoicesAreKept, OneEngine
<1>3. CASE WorkerJoined \/ DisableAllBegins \/ DisableAllEnds
  BY <1>b, <1>3
  DEF WorkerJoined, DisableAllBegins, DisableAllEnds, OneAtATime, VoicesAreKept, OneEngine
<1>4. CASE Shutdown
  <2>1. \A t \in Threads : playing[t] = "no"
    BY <1>0, <1>4 DEF Shutdown, Turns, NotPlaying, Threads
  <2> QED
    BY <1>0, <1>b, <1>4, <2>1
    DEF Shutdown, AudioTypeOK, OneAtATime, VoicesAreKept, OneEngine, NoEngine
<1> QED
  BY <1>1, <1>2, <1>3, <1>4, SoundSteps DEF AudioNext, Calls

(* With value fields or without: only a value field and the worker can be in *)
(* Play together, and as long as they have not been, the service needs no    *)
(* lock - however many voices there are and whichever calls fail, none is    *)
(* used after it was destroyed or left behind (AudioService.cpp,             *)
(* Application.cpp).                                                         *)
THEOREM SoundSafe == AudioSpec => []SoundIsSafe
<1>1. SoundInv => SoundIsSafe
  <2> SUFFICES ASSUME SoundInv PROVE SoundIsSafe
    OBVIOUS
  <2>1. ~OneThreadPlays => ValueFields /\ phase = "run"
    BY DEF SoundInv, Turns, OneThreadPlays, NotPlaying, Threads
  <2>2. ~met /\ phase = "over" => NothingRemains
    <3> SUFFICES ASSUME ~met, phase = "over" PROVE NothingRemains
      OBVIOUS
    <3>1. \A t \in Threads : playing[t] = "no"
      BY DEF SoundInv, Turns, NotPlaying, Threads
    <3> QED
      BY <3>1 DEF SoundInv, AudioTypeOK, OneAtATime, VoicesAreKept, OneEngine, NothingRemains
  <2> QED
    BY <2>1, <2>2 DEF SoundInv, SoundIsSafe
<1> QED
  BY <1>1, SoundInit, SoundNext, PTL DEF AudioSpec

-----------------------------------------------------------------------------
(* The console.                                                              *)

(* A command belongs to no frame that is still being drawn.                  *)
CommandApart == drawing > 0 => command = "none"

(* The list drawn stands still (ImGuiConsole.h:562).                         *)
THEOREM DrawnStands == ConsoleSpec => DrawnListStands
<1>1. ConsoleInit => CommandApart
  BY DEF ConsoleInit, CommandApart
<1>2. CommandApart /\ [ConsoleNext]_consoleVars => CommandApart'
  BY DEF ConsoleNext, LogLine, FrameBegins, DrawItem, DrawingDone, CommandGiven, CommandPrints,
     CommandClears, CommandDone, consoleVars, CommandApart
<1>3. CommandApart /\ [ConsoleNext]_consoleVars => [drawing > 0 => items' = items]_consoleVars
  BY DEF ConsoleNext, LogLine, FrameBegins, DrawItem, DrawingDone, CommandGiven, CommandPrints,
     CommandClears, CommandDone, consoleVars, CommandApart
<1> QED
  BY <1>1, <1>2, <1>3, PTL DEF ConsoleSpec, DrawnListStands

(* Types of the console.                                                     *)
Half == MAX_ENTRIES \div 2

LEMMA HalfFits == Half \in Nat /\ MAX_ENTRIES \in Nat /\ Half < MAX_ENTRIES /\ Half <= MAX_ENTRIES - Half
BY ConsoleAssumption DEF ConsoleAssumption, Half

LEMMA ToSetOf ==
  ASSUME NEW S, NEW s \in Seq(S)
  PROVE  ToSet(s) \subseteq S /\ \A x : x \in ToSet(s) <=> \E i \in 1..Len(s) : s[i] = x
BY DEF ToSet

LEMMA Dropped ==
  ASSUME NEW S, NEW s \in Seq(S), NEW d \in Nat, d <= Len(s)
  PROVE  /\ Drop(s, d) \in Seq(S) /\ Len(Drop(s, d)) = Len(s) - d
         /\ \A i \in 1..(Len(s) - d) : Drop(s, d)[i] = s[i + d]
<1>1. \A i \in 1..(Len(s) - d) : i + d = d + i
  OBVIOUS
<1> QED
  BY <1>1 DEF Drop

(* What a line does to the queue, and what a frame does to the list.         *)
LEMMA LineEffect ==
  ASSUME ConsoleTypeOK, LogLine
  PROVE  \E d \in 0..Half :
           /\ d > 0 => Len(pendingLines) = MAX_ENTRIES
           /\ pendingLines' \in Seq((1..made') \ printed)
           /\ Len(pendingLines') = Len(pendingLines) + 1 - d
           /\ Len(pendingLines') <= MAX_ENTRIES
           /\ \A i \in 1..Len(pendingLines') :
                pendingLines'[i] = IF i + d = Len(pendingLines) + 1 THEN made + 1 ELSE pendingLines[i + d]
<1> DEFINE all == Append(pendingLines, made + 1)
           S == (1..(made + 1)) \ printed
<1>1. /\ made \in Nat /\ printed \subseteq 1..made /\ pendingLines \in Seq((1..made) \ printed)
      /\ Len(pendingLines) \in Nat /\ Len(pendingLines) <= MAX_ENTRIES /\ made' = made + 1
  BY DEF ConsoleTypeOK, LogLine
<1>2. pendingLines \in Seq(S) /\ made + 1 \in S
  BY <1>1
<1>3. /\ all \in Seq(S) /\ Len(all) = Len(pendingLines) + 1
      /\ \A i \in 1..Len(all) : all[i] = IF i = Len(pendingLines) + 1 THEN made + 1 ELSE pendingLines[i]
  BY <1>1, <1>2
<1>4. pendingLines' = IF Len(all) > MAX_ENTRIES THEN Drop(all, Half) ELSE all
  BY DEF LogLine, Half
<1> HIDE DEF all, S
<1>5. CASE Len(all) > MAX_ENTRIES
  <2>1. /\ pendingLines' \in Seq(S) /\ Len(pendingLines') = Len(all) - Half
        /\ \A i \in 1..(Len(all) - Half) : pendingLines'[i] = all[Half + i]
    BY <1>1, <1>3, <1>4, <1>5, HalfFits DEF Drop
  <2>2. Len(pendingLines) = MAX_ENTRIES
    BY <1>1, <1>3, <1>5, HalfFits
  <2>3. Half > 0
    BY ConsoleAssumption DEF ConsoleAssumption, Half
  <2>4. Len(pendingLines') = Len(pendingLines) + 1 - Half /\ Len(pendingLines') <= MAX_ENTRIES
    BY <1>1, <1>3, <2>1, <2>2, <2>3, HalfFits
  <2>5. ASSUME NEW i \in 1..Len(pendingLines')
        PROVE  pendingLines'[i] = IF i + Half = Len(pendingLines) + 1 THEN made + 1 ELSE pendingLines[i + Half]
    BY <1>1, <1>3, <2>1, <2>4, HalfFits
  <2>6. Half \in 0..Half
    BY HalfFits
  <2> WITNESS Half \in 0..Half
  <2>7. pendingLines' \in Seq((1..made') \ printed)
    BY <1>1, <2>1 DEF S
  <2> QED
    BY <2>2, <2>4, <2>5, <2>7
<1>6. CASE Len(all) <= MAX_ENTRIES
  <2>1. pendingLines' = all
    BY <1>1, <1>3, <1>4, <1>6, HalfFits
  <2> 0 \in 0..Half
    BY HalfFits
  <2> WITNESS 0 \in 0..Half
  <2>2. pendingLines' \in Seq((1..made') \ printed)
    BY <1>1, <1>3, <2>1 DEF S
  <2> QED
    BY <1>1, <1>3, <1>6, <2>1, <2>2
<1>7. Len(all) > MAX_ENTRIES \/ Len(all) <= MAX_ENTRIES
  BY <1>1, <1>3, HalfFits
<1> QED
  BY <1>5, <1>6, <1>7

LEMMA FlushEffect ==
  ASSUME ConsoleTypeOK
  PROVE  \E d \in 0..(Len(items) + Len(pendingLines)) :
           /\ d > 0 => Len(flushed) = MAX_ENTRIES
           /\ flushed \in Seq(1..made)
           /\ Len(flushed) = Len(items) + Len(pendingLines) - d
           /\ \A i \in 1..Len(flushed) :
                flushed[i] = IF i + d <= Len(items) THEN items[i + d]
                                                   ELSE pendingLines[i + d - Len(items)]
<1> DEFINE all == items \o pendingLines
           size == Len(items) + Len(pendingLines)
<1>1. /\ items \in Seq(1..made) /\ pendingLines \in Seq(1..made)
      /\ Len(items) \in Nat /\ Len(pendingLines) \in Nat
  BY DEF ConsoleTypeOK
<1>2. /\ all \in Seq(1..made) /\ Len(all) = size /\ size \in Nat
      /\ \A i \in 1..Len(all) :
           all[i] = IF i <= Len(items) THEN items[i] ELSE pendingLines[i - Len(items)]
  BY <1>1
<1>3. flushed = IF pendingLines # <<>> /\ Len(all) > MAX_ENTRIES THEN Drop(all, Len(all) - MAX_ENTRIES) ELSE all
  BY DEF flushed
<1> HIDE DEF all
<1>4. CASE flushed = all
  <2> 0 \in 0..size
    BY <1>2
  <2> WITNESS 0 \in 0..size
  <2> QED
    BY <1>1, <1>2, <1>4
<1>5. CASE Len(all) > MAX_ENTRIES /\ flushed = Drop(all, Len(all) - MAX_ENTRIES)
  <2> DEFINE d == size - MAX_ENTRIES
  <2> d \in 0..size
    BY <1>2, <1>5, HalfFits
  <2>1. flushed = Drop(all, d) /\ d \in Nat /\ d <= Len(all) /\ Len(all) - d = MAX_ENTRIES
    BY <1>2, <1>5, HalfFits
  <2> HIDE DEF d
  <2>2. /\ flushed \in Seq(1..made) /\ Len(flushed) = Len(all) - d
        /\ \A i \in 1..(Len(all) - d) : flushed[i] = all[i + d]
    BY <1>2, <2>1, Dropped
  <2>3. ASSUME NEW i \in 1..Len(flushed)
        PROVE  flushed[i] = IF i + d <= Len(items) THEN items[i + d] ELSE pendingLines[i + d - Len(items)]
    <3>1. i + d \in 1..Len(all) /\ i \in 1..(Len(all) - d)
      BY <1>2, <2>1, <2>2
    <3> QED
      BY <1>2, <2>2, <3>1
  <2> WITNESS d \in 0..(Len(items) + Len(pendingLines))
  <2> QED
    BY <1>2, <2>1, <2>2, <2>3
<1> QED
  BY <1>3, <1>4, <1>5

(* The counting behind NewestAreKept: what stands behind a line of a thread, *)
(* in the list and in the queue, was all made after it.  So a line is only   *)
(* dropped when more than Half newer ones stand behind it.                   *)
InOrder ==
  /\ \A i, j \in 1..Len(items) :
       i < j /\ items[i] \notin printed /\ items[j] \notin printed => items[i] < items[j]
  /\ \A i, j \in 1..Len(pendingLines) : i < j => pendingLines[i] < pendingLines[j]
  /\ \A i \in 1..Len(items), j \in 1..Len(pendingLines) :
       items[i] \notin printed => items[i] < pendingLines[j]

Counted ==
  /\ \A i \in 1..Len(items) :
       items[i] \notin printed => Len(items) - i + Len(pendingLines) <= made - items[i]
  /\ \A i \in 1..Len(pendingLines) : Len(pendingLines) - i <= made - pendingLines[i]

Listed(n) == \E i \in 1..Len(items) : items[i] = n
Queued(n) == \E i \in 1..Len(pendingLines) : pendingLines[i] = n

Kept ==
  \A n \in (1..made) \ printed :
    n \notin cleared /\ made - n <= Half => Listed(n) \/ Queued(n)

ConsoleInv == ConsoleTypeOK /\ CommandApart /\ InOrder /\ Counted /\ Kept

LEMMA LineTypes ==
  ASSUME ConsoleTypeOK, LogLine
  PROVE  ConsoleTypeOK'
<1>1. PICK d \in 0..Half : /\ pendingLines' \in Seq((1..made') \ printed)
                          /\ Len(pendingLines') <= MAX_ENTRIES
  BY LineEffect
<1>2. made' = made + 1 /\ made' \in 0..MaxLines /\ made \in Nat
  BY ConsoleAssumption DEF ConsoleAssumption, LogLine, ConsoleTypeOK
<1>3. items' = items /\ items \in Seq(1..made') /\ 1..made \subseteq 1..made'
  BY <1>2 DEF LogLine, ConsoleTypeOK
<1> QED
  BY <1>1, <1>2, <1>3 DEF LogLine, ConsoleTypeOK

LEMMA PrintTypes ==
  ASSUME ConsoleTypeOK, CommandGiven \/ CommandPrints
  PROVE  ConsoleTypeOK'
<1>1. /\ made < MaxLines /\ made' = made + 1 /\ printed' = printed \cup {made + 1}
      /\ items' = Append(items, made + 1) /\ UNCHANGED <<pendingLines, drawing, cleared>>
      /\ command' \in {"none", "given", "runs"}
  BY DEF CommandGiven, CommandPrints, ConsoleTypeOK
<1>2. made' \in 0..MaxLines /\ made \in Nat
  BY <1>1, ConsoleAssumption DEF ConsoleAssumption, ConsoleTypeOK
<1>3. items \in Seq(1..made') /\ made + 1 \in 1..made' /\ 1..made \subseteq 1..made'
  BY <1>1, <1>2 DEF ConsoleTypeOK
<1>4. items' \in Seq(1..made') /\ Len(items') = Len(items) + 1
  BY <1>1, <1>3
<1>5. (1..made) \ printed \subseteq (1..made') \ printed'
  BY <1>1, <1>2
<1>6. pendingLines' \in Seq((1..made') \ printed') /\ Len(pendingLines') <= MAX_ENTRIES
  BY <1>1, <1>5 DEF ConsoleTypeOK
<1>7. drawing' \in 0..(Len(items') + 1)
  <2>1. drawing \in 0..(Len(items) + 1) /\ Len(items) \in Nat
    BY DEF ConsoleTypeOK
  <2> QED
    BY <1>1, <1>4, <2>1
<1>8. printed' \subseteq 1..made' /\ cleared' \subseteq 1..made'
  BY <1>1, <1>3 DEF ConsoleTypeOK
<1> QED
  BY <1>1, <1>2, <1>4, <1>6, <1>7, <1>8 DEF ConsoleTypeOK

LEMMA FrameTypes ==
  ASSUME ConsoleTypeOK, FrameBegins
  PROVE  ConsoleTypeOK'
<1>1. PICK d \in 0..(Len(items) + Len(pendingLines)) : flushed \in Seq(1..made)
  BY FlushEffect
<1>2. ToSet(flushed) \subseteq 1..made
  BY <1>1, ToSetOf
<1>3. items' \in Seq(1..made) /\ drawing' \in {0, 1} /\ cleared' \subseteq 1..made
  <2>1. cleared \subseteq 1..made
    BY DEF ConsoleTypeOK
  <2>2. items' = flushed \/ items' = <<>>
    BY DEF FrameBegins
  <2>3. drawing' \in {0, 1}
    BY DEF FrameBegins
  <2>4. cleared' = cleared \/ cleared' = cleared \cup ToSet(flushed)
    BY DEF FrameBegins
  <2>5. items' \in Seq(1..made)
    <3>1. <<>> \in Seq(1..made)
      OBVIOUS
    <3> QED
      BY <1>1, <2>2, <3>1
  <2> QED
    BY <1>2, <2>1, <2>3, <2>4, <2>5
<1>4. drawing' \in 0..(Len(items') + 1)
  <2>1. Len(items') \in Nat
    BY <1>3
  <2> QED
    BY <1>3, <2>1
<1>5. pendingLines' \in Seq((1..made) \ printed) /\ Len(pendingLines') <= MAX_ENTRIES
  <2>1. pendingLines' = <<>>
    BY DEF FrameBegins
  <2> QED
    BY <2>1, HalfFits
<1> QED
  BY <1>3, <1>4, <1>5 DEF FrameBegins, ConsoleTypeOK

LEMMA ConsoleTypesNext ==
  ASSUME ConsoleTypeOK, CommandApart, [ConsoleNext]_consoleVars
  PROVE  ConsoleTypeOK'
<1>1. CASE DrawItem
  <2>1. drawing \in 1..Len(items) /\ Len(items) \in Nat
    BY <1>1 DEF DrawItem, ConsoleTypeOK
  <2>2. drawing' \in 0..(Len(items) + 1)
    BY <1>1, <2>1 DEF DrawItem
  <2> QED
    BY <1>1, <2>2 DEF DrawItem, ConsoleTypeOK
<1>2. CASE DrawingDone
  <2>1. drawing' \in 0..(Len(items) + 1)
    BY <1>2 DEF DrawingDone, ConsoleTypeOK
  <2> QED
    BY <1>2, <2>1 DEF DrawingDone, ConsoleTypeOK
<1>3. CASE CommandClears
  <2>1. ToSet(items) \subseteq 1..made
    BY DEF ConsoleTypeOK, ToSet
  <2>2. drawing = 0
    BY <1>3 DEF CommandClears, CommandApart, ConsoleTypeOK
  <2>3. items' \in Seq(1..made) /\ drawing' \in 0..(Len(items') + 1)
    BY <1>3, <2>2 DEF CommandClears
  <2> QED
    BY <1>3, <2>1, <2>3 DEF CommandClears, ConsoleTypeOK
<1>4. CASE CommandDone
  BY <1>4 DEF CommandDone, ConsoleTypeOK
<1>5. CASE UNCHANGED consoleVars
  BY <1>5 DEF consoleVars, ConsoleTypeOK
<1> QED
  BY <1>1, <1>2, <1>3, <1>4, <1>5, LineTypes, PrintTypes, FrameTypes DEF ConsoleNext

LEMMA LineKeeps ==
  ASSUME ConsoleInv, LogLine
  PROVE  (InOrder /\ Counted /\ Kept)'
<1> DEFINE n == Len(pendingLines)
           m == Len(pendingLines')
<1>1. PICK d \in 0..Half :
        /\ d > 0 => n = MAX_ENTRIES
        /\ m = n + 1 - d
        /\ \A i \in 1..m : pendingLines'[i] = IF i + d = n + 1 THEN made + 1 ELSE pendingLines[i + d]
  BY LineEffect DEF ConsoleInv
<1>2. /\ made' = made + 1 /\ items' = items /\ printed' = printed /\ cleared' = cleared
      /\ made \in Nat /\ Len(items) \in Nat /\ n \in Nat /\ d \in Nat /\ d <= Half
      /\ \A i \in 1..Len(items) : items[i] \in 1..made
      /\ \A i \in 1..n : pendingLines[i] \in 1..made
  <2>1. /\ made \in Nat /\ items \in Seq(1..made) /\ pendingLines \in Seq((1..made) \ printed)
    BY DEF ConsoleInv, ConsoleTypeOK
  <2> QED
    BY <2>1, HalfFits DEF LogLine
<1> HIDE DEF n, m
<1>3. InOrder'
  <2>1. ASSUME NEW i \in 1..m, NEW j \in 1..m, i < j
        PROVE  pendingLines'[i] < pendingLines'[j]
    <3>1. i + d \in 1..n /\ i + d # n + 1 /\ j + d \in 1..(n + 1) /\ i + d < j + d
      BY <1>1, <1>2, <2>1
    <3>2. pendingLines'[i] = pendingLines[i + d] /\ pendingLines[i + d] \in 1..made
      BY <1>1, <1>2, <3>1
    <3>3. CASE j + d = n + 1
      BY <1>1, <1>2, <3>2, <3>3
    <3>4. CASE j + d # n + 1
      <4>1. j + d \in 1..n /\ pendingLines'[j] = pendingLines[j + d]
        BY <1>1, <1>2, <3>1, <3>4
      <4>2. pendingLines[i + d] < pendingLines[j + d]
        BY <3>1, <4>1 DEF ConsoleInv, InOrder, n
      <4> QED
        BY <3>2, <4>1, <4>2
    <3> QED
      BY <3>3, <3>4
  <2>2. ASSUME NEW i \in 1..Len(items), NEW j \in 1..m, items[i] \notin printed
        PROVE  items[i] < pendingLines'[j]
    <3>1. CASE j + d = n + 1
      BY <1>1, <1>2, <3>1
    <3>2. CASE j + d # n + 1
      <4>1. j + d \in 1..n /\ pendingLines'[j] = pendingLines[j + d]
        BY <1>1, <1>2, <3>2
      <4>2. items[i] < pendingLines[j + d]
        BY <2>2, <4>1 DEF ConsoleInv, InOrder, n
      <4> QED
        BY <4>1, <4>2
    <3> QED
      BY <3>1, <3>2
  <2> QED
    BY <1>2, <2>1, <2>2 DEF ConsoleInv, InOrder, m
<1>4. Counted'
  <2>1. ASSUME NEW i \in 1..Len(items), items[i] \notin printed
        PROVE  Len(items) - i + m <= made' - items[i]
    <3>1. items[i] \in 1..made /\ Len(items) - i + n <= made - items[i]
      BY <1>2, <2>1 DEF ConsoleInv, Counted, n
    <3> QED
      BY <1>1, <1>2, <3>1
  <2>2. ASSUME NEW i \in 1..m
        PROVE  m - i <= made' - pendingLines'[i]
    <3>1. CASE i + d = n + 1
      BY <1>1, <1>2, <3>1
    <3>2. CASE i + d # n + 1
      <4>1. i + d \in 1..n /\ pendingLines'[i] = pendingLines[i + d]
        BY <1>1, <1>2, <3>2
      <4>2. n - (i + d) <= made - pendingLines[i + d] /\ pendingLines[i + d] \in 1..made
        BY <1>2, <4>1 DEF ConsoleInv, Counted, n
      <4> QED
        BY <1>1, <1>2, <4>1, <4>2
    <3> QED
      BY <3>1, <3>2
  <2>3. (\A i \in 1..Len(items) :
          items[i] \notin printed => Len(items) - i + Len(pendingLines) <= made - items[i])'
    BY <1>2, <2>1 DEF m
  <2>4. (\A i \in 1..Len(pendingLines) : Len(pendingLines) - i <= made - pendingLines[i])'
    BY <1>2, <2>2 DEF m
  <2> QED
    BY <2>3, <2>4 DEF Counted
<1>5. Kept'
  <2> SUFFICES ASSUME NEW k \in (1..(made + 1)) \ printed, k \notin cleared, made + 1 - k <= Half
               PROVE  Listed(k) \/ \E i \in 1..m : pendingLines'[i] = k
    BY <1>2 DEF Kept, Listed, Queued, m
  <2>1. CASE k = made + 1
    <3>1. n + 1 - d \in 1..m /\ (n + 1 - d) + d = n + 1
      BY <1>1, <1>2, HalfFits
    <3> QED
      BY <1>1, <2>1, <3>1
  <2>2. CASE k # made + 1
    <3>1. k \in (1..made) \ printed /\ made - k <= Half /\ k \in Nat
      BY <1>2, <2>2, HalfFits
    <3>2. CASE Queued(k)
      <4>1. PICK i \in 1..n : pendingLines[i] = k
        BY <3>2 DEF Queued, n
      <4>2. n - i <= made - k
        BY <4>1 DEF ConsoleInv, Counted, n
      <4>3. i - d \in 1..m /\ (i - d) + d = i /\ i # n + 1
        BY <1>1, <1>2, <3>1, <4>1, <4>2, HalfFits
      <4> QED
        BY <1>1, <4>1, <4>3
    <3> QED
      BY <3>1, <3>2 DEF ConsoleInv, Kept
  <2> QED
    BY <2>1, <2>2
<1> QED
  BY <1>3, <1>4, <1>5

LEMMA PrintKeeps ==
  ASSUME ConsoleInv, CommandGiven \/ CommandPrints
  PROVE  (InOrder /\ Counted /\ Kept)'
<1> DEFINE n == Len(pendingLines)
           m == Len(items)
<1>1. /\ made' = made + 1 /\ printed' = printed \cup {made + 1} /\ items' = Append(items, made + 1)
      /\ UNCHANGED <<pendingLines, cleared>>
  BY DEF CommandGiven, CommandPrints
<1>2. /\ made \in Nat /\ m \in Nat /\ n \in Nat /\ items \in Seq(1..made)
      /\ \A i \in 1..m : items[i] \in 1..made
      /\ \A i \in 1..n : pendingLines[i] \in 1..made
  BY DEF ConsoleInv, ConsoleTypeOK
<1>3. /\ Len(items') = m + 1
      /\ \A i \in 1..m : items'[i] = items[i]
      /\ items'[m + 1] \in printed'
  BY <1>1, <1>2
<1>4. ASSUME NEW i \in 1..(m + 1), items'[i] \notin printed'
      PROVE  i \in 1..m /\ items'[i] = items[i] /\ items[i] \notin printed
  BY <1>1, <1>2, <1>3, <1>4
<1> HIDE DEF n, m
<1>5. InOrder'
  BY <1>1, <1>3, <1>4 DEF ConsoleInv, InOrder, n, m
<1>6. Counted'
  <2>1. ASSUME NEW i \in 1..Len(items'), items'[i] \notin printed'
        PROVE  Len(items') - i + n <= made' - items'[i]
    <3>1. i \in 1..m /\ items'[i] = items[i] /\ m - i + n <= made - items[i] /\ items[i] \in 1..made
      BY <1>2, <1>3, <1>4, <2>1 DEF ConsoleInv, Counted, n, m
    <3> QED
      BY <1>1, <1>2, <1>3, <3>1
  <2>2. ASSUME NEW i \in 1..n
        PROVE  n - i <= made' - pendingLines[i]
    <3>1. n - i <= made - pendingLines[i] /\ pendingLines[i] \in 1..made
      BY <1>2 DEF ConsoleInv, Counted, n
    <3> QED
      BY <1>1, <1>2, <3>1
  <2>3. (\A i \in 1..Len(items) :
          items[i] \notin printed => Len(items) - i + Len(pendingLines) <= made - items[i])'
    BY <1>1, <2>1 DEF n
  <2>4. (\A i \in 1..Len(pendingLines) : Len(pendingLines) - i <= made - pendingLines[i])'
    BY <1>1, <2>2 DEF n
  <2> QED
    BY <2>3, <2>4 DEF Counted
<1>7. Kept'
  <2> SUFFICES ASSUME NEW k \in (1..made') \ printed', k \notin cleared', made' - k <= Half
               PROVE  (Listed(k) \/ Queued(k))'
    BY DEF Kept
  <2>0. Queued(k) => Queued(k)'
    BY <1>1 DEF Queued
  <2>1. k \in (1..made) \ printed /\ k \notin cleared /\ made - k <= Half
    BY <1>1, <1>2, HalfFits
  <2>2. Listed(k) => Listed(k)'
    <3> SUFFICES ASSUME NEW i \in 1..m, items[i] = k PROVE Listed(k)'
      BY DEF Listed, m
    <3>1. i \in 1..Len(items') /\ items'[i] = k
      BY <1>2, <1>3
    <3> QED
      BY <3>1 DEF Listed
  <2> QED
    BY <2>0, <2>1, <2>2 DEF ConsoleInv, Kept
<1> QED
  BY <1>5, <1>6, <1>7

LEMMA FrameKeeps ==
  ASSUME ConsoleInv, FrameBegins
  PROVE  (InOrder /\ Counted /\ Kept)'
<1> DEFINE n == Len(pendingLines)
           m == Len(items)
           size == Len(flushed)
<1>1. PICK d \in 0..(m + n) :
        /\ d > 0 => size = MAX_ENTRIES
        /\ flushed \in Seq(1..made)
        /\ size = m + n - d
        /\ \A i \in 1..size :
             flushed[i] = IF i + d <= m THEN items[i + d] ELSE pendingLines[i + d - m]
  BY FlushEffect DEF ConsoleInv
<1>2. /\ made' = made /\ printed' = printed /\ pendingLines' = <<>>
      /\ \/ items' = flushed /\ cleared' = cleared
         \/ items' = <<>> /\ cleared' = cleared \cup ToSet(flushed)
  BY DEF FrameBegins
<1>3. /\ made \in Nat /\ m \in Nat /\ n \in Nat /\ d \in Nat /\ d <= m + n
      /\ \A i \in 1..m : items[i] \in 1..made
      /\ \A i \in 1..n : pendingLines[i] \in 1..made
  <2>1. /\ made \in Nat /\ items \in Seq(1..made) /\ pendingLines \in Seq((1..made) \ printed)
    BY DEF ConsoleInv, ConsoleTypeOK
  <2> QED
    BY <2>1
<1>4. \A x : x \in ToSet(flushed) <=> \E i \in 1..size : flushed[i] = x
  BY <1>1, ToSetOf
<1> HIDE DEF n, m, size
<1>5. ASSUME NEW i \in 1..size, flushed[i] \notin printed
      PROVE  /\ size - i <= made - flushed[i]
             /\ \A j \in 1..size : i < j /\ flushed[j] \notin printed => flushed[i] < flushed[j]
  <2>1. CASE i + d <= m
    <3>1. i + d \in 1..m /\ flushed[i] = items[i + d]
      BY <1>1, <1>3, <2>1
    <3>2. m - (i + d) + n <= made - items[i + d]
      BY <1>5, <3>1 DEF ConsoleInv, Counted, m, n
    <3>3. ASSUME NEW j \in 1..size, i < j, flushed[j] \notin printed
          PROVE  flushed[i] < flushed[j]
      <4>1. CASE j + d <= m
        <5>1. j + d \in 1..m /\ flushed[j] = items[j + d] /\ i + d < j + d
          BY <1>1, <1>3, <3>3, <4>1
        <5> QED
          BY <1>5, <3>1, <3>3, <5>1 DEF ConsoleInv, InOrder, m
      <4>2. CASE ~ (j + d <= m)
        <5>1. j + d - m \in 1..n /\ flushed[j] = pendingLines[j + d - m]
          BY <1>1, <1>3, <4>2
        <5> QED
          BY <1>5, <3>1, <5>1 DEF ConsoleInv, InOrder, m, n
      <4> QED
        BY <4>1, <4>2
    <3>4. size - i <= made - flushed[i]
      BY <1>1, <1>3, <3>1, <3>2
    <3> QED
      BY <3>3, <3>4
  <2>2. CASE ~ (i + d <= m)
    <3>1. i + d - m \in 1..n /\ flushed[i] = pendingLines[i + d - m]
      BY <1>1, <1>3, <2>2
    <3>2. n - (i + d - m) <= made - pendingLines[i + d - m]
      BY <3>1 DEF ConsoleInv, Counted, n
    <3>3. ASSUME NEW j \in 1..size, i < j
          PROVE  flushed[i] < flushed[j]
      <4>1. /\ j + d - m \in 1..n /\ flushed[j] = pendingLines[j + d - m]
            /\ i + d - m < j + d - m
        BY <1>1, <1>3, <2>2, <3>3
      <4> QED
        BY <3>1, <4>1 DEF ConsoleInv, InOrder, n
    <3>4. size - i <= made - flushed[i]
      BY <1>1, <1>3, <3>1, <3>2
    <3> QED
      BY <3>3, <3>4
  <2> QED
    BY <2>1, <2>2
<1>6. ASSUME NEW k \in (1..made) \ printed, k \notin cleared, made - k <= Half
      PROVE  \E i \in 1..size : flushed[i] = k
  <2>1. CASE Listed(k)
    <3>1. PICK i \in 1..m : items[i] = k
      BY <2>1 DEF Listed, m
    <3>2. m - i + n <= made - k
      BY <3>1 DEF ConsoleInv, Counted, m, n
    <3>3. i - d \in 1..size /\ (i - d) + d = i
      BY <1>1, <1>3, <1>6, <3>1, <3>2, HalfFits
    <3>4. flushed[i - d] = k
      BY <1>1, <1>3, <3>1, <3>3
    <3> QED
      BY <3>3, <3>4
  <2>2. CASE Queued(k)
    <3>1. PICK i \in 1..n : pendingLines[i] = k
      BY <2>2 DEF Queued, n
    <3>2. n - i <= made - k
      BY <3>1 DEF ConsoleInv, Counted, n
    <3>3. i + m - d \in 1..size /\ ~ ((i + m - d) + d <= m) /\ (i + m - d) + d - m = i
      BY <1>1, <1>3, <1>6, <3>1, <3>2, HalfFits
    <3>4. flushed[i + m - d] = k
      BY <1>1, <1>3, <3>1, <3>3
    <3> QED
      BY <3>3, <3>4
  <2> QED
    BY <1>6, <2>1, <2>2 DEF ConsoleInv, Kept
<1>7. Len(<<>>) = 0 /\ 1..0 = {}
  OBVIOUS
<1>8. CASE items' = flushed /\ cleared' = cleared
  <2>1. InOrder'
    BY <1>2, <1>5, <1>7, <1>8 DEF InOrder, size
  <2>2. Counted'
    <3>1. ASSUME NEW i \in 1..Len(items'), items'[i] \notin printed'
          PROVE  Len(items') - i + Len(pendingLines') <= made' - items'[i]
      <4>1. Len(items') - i <= made' - items'[i] /\ Len(pendingLines') = 0
        BY <1>2, <1>5, <1>7, <1>8, <3>1 DEF size
      <4>2. Len(items') - i \in Int
        BY <1>1, <1>8
      <4> QED
        BY <4>1, <4>2
    <3> QED
      BY <1>2, <1>7, <3>1 DEF Counted
  <2>3. Kept'
    BY <1>2, <1>6, <1>8 DEF Kept, Listed, size
  <2> QED
    BY <2>1, <2>2, <2>3
<1>9. CASE items' = <<>> /\ cleared' = cleared \cup ToSet(flushed)
  <2>1. InOrder' /\ Counted'
    BY <1>2, <1>7, <1>9 DEF InOrder, Counted
  <2>2. Kept'
    BY <1>2, <1>4, <1>6, <1>9 DEF Kept
  <2> QED
    BY <2>1, <2>2
<1> QED
  BY <1>2, <1>8, <1>9

LEMMA ClearKeeps ==
  ASSUME ConsoleInv, CommandClears
  PROVE  (InOrder /\ Counted /\ Kept)'
<1>1. /\ items' = <<>> /\ cleared' = cleared \cup ToSet(items)
      /\ UNCHANGED <<made, printed, pendingLines>>
  BY DEF CommandClears
<1>2. Len(<<>>) = 0 /\ 1..0 = {}
  OBVIOUS
<1>3. InOrder' /\ Counted'
  BY <1>1, <1>2 DEF ConsoleInv, InOrder, Counted
<1>4. \A x : Listed(x) => x \in ToSet(items)
  BY ToSetOf DEF ConsoleInv, ConsoleTypeOK, Listed
<1>5. Kept'
  BY <1>1, <1>4 DEF ConsoleInv, Kept, Queued
<1> QED
  BY <1>3, <1>5

LEMMA ConsoleNextKeeps == ConsoleInv /\ [ConsoleNext]_consoleVars => ConsoleInv'
<1> SUFFICES ASSUME ConsoleInv, [ConsoleNext]_consoleVars PROVE ConsoleInv'
  OBVIOUS
<1>1. ConsoleTypeOK'
  BY ConsoleTypesNext DEF ConsoleInv
<1>2. CommandApart'
  BY DEF ConsoleNext, LogLine, FrameBegins, DrawItem, DrawingDone, CommandGiven, CommandPrints,
     CommandClears, CommandDone, consoleVars, CommandApart, ConsoleInv
<1>3. CASE DrawItem \/ DrawingDone \/ CommandDone \/ UNCHANGED consoleVars
  <2>1. UNCHANGED <<made, printed, items, pendingLines, cleared>>
    BY <1>3 DEF DrawItem, DrawingDone, CommandDone, consoleVars
  <2>2. InOrder' /\ Counted' /\ Kept'
    BY <2>1 DEF ConsoleInv, InOrder, Counted, Kept, Listed, Queued
  <2> QED
    BY <1>1, <1>2, <2>2 DEF ConsoleInv
<1>4. CASE LogLine
  BY <1>1, <1>2, <1>4, LineKeeps DEF ConsoleInv
<1>5. CASE FrameBegins
  BY <1>1, <1>2, <1>5, FrameKeeps DEF ConsoleInv
<1>6. CASE CommandGiven \/ CommandPrints
  BY <1>1, <1>2, <1>6, PrintKeeps DEF ConsoleInv
<1>7. CASE CommandClears
  BY <1>1, <1>2, <1>7, ClearKeeps DEF ConsoleInv
<1> QED
  BY <1>3, <1>4, <1>5, <1>6, <1>7 DEF ConsoleNext

LEMMA ConsoleInitKeeps == ConsoleInit => ConsoleInv
<1> SUFFICES ASSUME ConsoleInit PROVE ConsoleInv
  OBVIOUS
<1>1. Len(<<>>) = 0 /\ 1..0 = {}
  OBVIOUS
<1>2. ConsoleTypeOK
  BY <1>1, ConsoleAssumption DEF ConsoleInit, ConsoleTypeOK, ConsoleAssumption
<1> QED
  BY <1>1, <1>2 DEF ConsoleInit, ConsoleInv, CommandApart, InOrder, Counted, Kept

(* The console's variables keep their types: in particular the queue of the  *)
(* threads never holds more than MAX_ENTRIES lines and no line a command     *)
(* printed.                                                                  *)
THEOREM ConsoleTypeCorrect == ConsoleSpec => []ConsoleTypeOK
<1>1. ConsoleInv => ConsoleTypeOK
  BY DEF ConsoleInv
<1> QED
  BY <1>1, ConsoleInitKeeps, ConsoleNextKeeps, PTL DEF ConsoleSpec

(* The newest half of the log is kept and stands in its order                *)
(* (ImGuiConsole.h, Log and FlushPending).                                   *)
THEOREM NewestKept == ConsoleSpec => []NewestAreKept
<1>1. ConsoleInv => NewestAreKept
  <2> SUFFICES ASSUME ConsoleInv PROVE NewestAreKept
    OBVIOUS
  <2> DEFINE n == Len(pendingLines)
             m == Len(items)
  <2>1. /\ items \in Seq(1..made) /\ pendingLines \in Seq(1..made)
        /\ made \in Nat /\ m \in Nat /\ n \in Nat
    BY DEF ConsoleInv, ConsoleTypeOK
  <2>2. /\ Logged \in Seq(1..made) /\ Len(Logged) = m + n /\ DOMAIN Logged = 1..(m + n)
        /\ \A i \in 1..(m + n) : Logged[i] = IF i <= m THEN items[i] ELSE pendingLines[i - m]
    BY <2>1 DEF Logged
  <2>3. \A x : x \in ToSet(Logged) <=> \E i \in 1..(m + n) : Logged[i] = x
    BY <2>2, ToSetOf
  <2> HIDE DEF n, m
  <2>a. m \in Nat /\ n \in Nat
    BY <2>1
  <2>b. \A i \in 1..(m + n) : i <= m => Logged[i] = items[i]
    BY <2>2
  <2>c. \A i \in 1..(m + n) : ~(i <= m) => Logged[i] = pendingLines[i - m]
    BY <2>2
  <2>4. ASSUME NEW k, Listed(k) \/ Queued(k)
        PROVE  k \in ToSet(Logged)
    <3>1. CASE Listed(k)
      <4>1. PICK i \in 1..m : items[i] = k
        BY <3>1 DEF Listed, m
      <4>2. i \in 1..(m + n) /\ i <= m
        BY <2>1
      <4> QED
        BY <2>2, <2>3, <4>1, <4>2
    <3>2. CASE Queued(k)
      <4>1. PICK i \in 1..n : pendingLines[i] = k
        BY <3>2 DEF Queued, n
      <4>2. i + m \in 1..(m + n) /\ ~ (i + m <= m) /\ (i + m) - m = i
        BY <2>1
      <4>3. Logged[i + m] = k
        BY <2>2, <4>1, <4>2
      <4> QED
        BY <2>3, <4>2, <4>3
    <3> QED
      BY <2>4, <3>1, <3>2
  <2>5. ASSUME NEW i \in 1..(m + n), NEW j \in 1..(m + n), i < j,
               Logged[i] \notin printed, Logged[j] \notin printed
        PROVE  Logged[i] < Logged[j]
    <3>1. CASE j <= m
      <4>0. i \in 1..m /\ j \in 1..m /\ i <= m
        BY <2>a, <2>5, <3>1
      <4>1. Logged[i] = items[i] /\ Logged[j] = items[j]
        BY <2>b, <3>1, <4>0
      <4> QED
        BY <2>5, <4>0, <4>1 DEF ConsoleInv, InOrder, m
    <3>2. CASE i <= m /\ ~ (j <= m)
      <4>0. i \in 1..m /\ j - m \in 1..n
        BY <2>a, <3>2
      <4>1. Logged[i] = items[i] /\ Logged[j] = pendingLines[j - m]
        BY <2>b, <2>c, <3>2
      <4> QED
        BY <2>5, <4>0, <4>1 DEF ConsoleInv, InOrder, m, n
    <3>3. CASE ~ (i <= m)
      <4>0. i - m \in 1..n /\ j - m \in 1..n /\ i - m < j - m /\ ~(j <= m)
        BY <2>a, <2>5, <3>3
      <4>1. Logged[i] = pendingLines[i - m] /\ Logged[j] = pendingLines[j - m]
        BY <2>c, <3>3, <4>0
      <4> QED
        BY <2>5, <4>0, <4>1 DEF ConsoleInv, InOrder, n
    <3> QED
      BY <3>1, <3>2, <3>3
  <2> QED
    BY <2>2, <2>4, <2>5 DEF NewestAreKept, ConsoleInv, Kept, Half
<1> QED
  BY <1>1, ConsoleInitKeeps, ConsoleNextKeeps, PTL DEF ConsoleSpec

-----------------------------------------------------------------------------
(* Toasts: what a frame knows of an option.  When it last looked at it:      *)
LastLook(o) == IF frame \in 1..o THEN frameAt - delta ELSE frameAt

(* The clock stands while a frame is made.                                   *)
FrameClock == frame # NoFrame => now = frameAt

(* An option: the age seen is that of the failure shown at the last look; a  *)
(* failure that is no news is the one shown; and what is news behind the     *)
(* frame has come during it.                                                 *)
Marks(o) ==
  /\ seen[o] = Unseen <=> shown[o] = Never
  /\ seen[o] # Unseen => seen[o] = LastLook(o) - shown[o]
  /\ o \in news => failedAt[o] # Never
  /\ o \notin news /\ failedAt[o] # Never => failedAt[o] = shown[o]
  /\ o \in news /\ frame > o => failedAt[o] = now

ToastInv == ToastTypeOK /\ FrameClock /\ \A o \in Opts : Marks(o)

LEMMA ToastNumbers ==
  /\ ErrorLife \in Nat /\ EventLife \in Nat
  /\ Switches \in Nat /\ EndOfTime \in Nat /\ MaxGames \in Nat
BY ToastAssumption DEF ToastAssumption

LEMMA NotifiedType ==
  ASSUME toasts \in Seq(Toasts), Len(toasts) <= Max2, NEW what \in (-MaxGames)..Switches
  PROVE  Notified(what) \in Seq(Toasts) /\ Len(Notified(what)) <= Max2
<1> DEFINE new == [what |-> what, age |-> 0]
           all == Append(toasts, new)
<1>1. new \in Toasts
  BY DEF Toasts
<1>2. /\ Len(toasts) \in Nat /\ DOMAIN toasts = 1..Len(toasts)
      /\ \A i \in 1..Len(toasts) : toasts[i] \in Toasts
  OBVIOUS
<1>3. CASE \E i \in DOMAIN toasts : toasts[i].what = what
  <2> DEFINE longer == [i \in DOMAIN toasts |->
                         IF toasts[i].what = what THEN [toasts[i] EXCEPT !.age = 0] ELSE toasts[i]]
  <2>1. \A t \in Toasts : [t EXCEPT !.age = 0] \in Toasts
    BY DEF Toasts
  <2>2. longer \in [1..Len(toasts) -> Toasts]
    BY <1>2, <2>1
  <2> HIDE DEF longer
  <2>3. longer \in Seq(Toasts) /\ Len(longer) = Len(toasts)
    BY <1>2, <2>2
  <2>4. Notified(what) = longer
    BY <1>3 DEF Notified, longer
  <2> QED
    BY <2>3, <2>4
<1>4. CASE ~ \E i \in DOMAIN toasts : toasts[i].what = what
  <2>1. Notified(what) = IF Len(all) > Max2 THEN Tail(all) ELSE all
    BY <1>4 DEF Notified
  <2> HIDE DEF new
  <2>2. all \in Seq(Toasts) /\ Len(all) = Len(toasts) + 1
    BY <1>1
  <2> HIDE DEF all
  <2>3. CASE Len(all) > Max2
    <3>1. all # <<>> /\ Len(all) = 3
      BY <1>2, <2>2, <2>3 DEF Max2
    <3>2. Tail(all) \in Seq(Toasts) /\ Len(Tail(all)) = Len(all) - 1
      BY <2>2, <3>1, HeadTailProperties
    <3>3. Len(Tail(all)) = 2
      BY <3>1, <3>2
    <3> QED
      BY <2>1, <2>3, <3>2, <3>3 DEF Max2
  <2>4. CASE ~ (Len(all) > Max2)
    BY <1>2, <2>1, <2>2, <2>4 DEF Max2
  <2> QED
    BY <2>3, <2>4
<1> QED
  BY <1>3, <1>4

LEMMA FreshType ==
  ASSUME toasts \in Seq(Toasts), delta \in Nat, NEW i \in {1, 2}
  PROVE  Fresh(i) \in Seq(Toasts) /\ (Len(Fresh(i)) = 0 \/ Len(Fresh(i)) = 1)
<1>1. ASSUME NEW t \in Toasts PROVE [t EXCEPT !.age = @ + delta] \in Toasts
  <2>1. [t EXCEPT !.age = @ + delta] = [what |-> t.what, age |-> t.age + delta]
    BY DEF Toasts
  <2>2. t.what \in (-MaxGames)..Switches /\ t.age + delta \in Nat
    BY DEF Toasts
  <2> QED
    BY <2>1, <2>2 DEF Toasts
<1>2. Older \in [DOMAIN toasts -> Toasts]
  BY <1>1 DEF Older
<1>3. Fresh(i) = <<>> \/ \E t \in Toasts : Fresh(i) = <<t>>
  BY <1>2 DEF Fresh
<1>4. CASE Fresh(i) = <<>>
  BY <1>4
<1>5. ASSUME NEW t \in Toasts, Fresh(i) = <<t>>
      PROVE  Fresh(i) \in Seq(Toasts) /\ Len(Fresh(i)) = 1
  BY <1>5
<1> QED
  BY <1>3, <1>4, <1>5

LEMMA ToastInitKeeps == ToastInit => ToastInv
<1> SUFFICES ASSUME ToastInit PROVE ToastInv
  OBVIOUS
<1>1. ToastTypeOK
  <2>1. toasts \in Seq(Toasts) /\ Len(toasts) <= Max2
    BY DEF ToastInit, Max2
  <2> QED
    BY <2>1, ToastNumbers DEF ToastInit, ToastTypeOK, NoFrame
<1> QED
  BY <1>1, ToastNumbers
  DEF ToastInit, ToastInv, FrameClock, Marks, LastLook, Opts, NoFrame, Unseen, Never

LEMMA ToastTypesNext == ToastTypeOK /\ [ToastNext]_toastVars => ToastTypeOK'
<1> SUFFICES ASSUME ToastTypeOK, [ToastNext]_toastVars PROVE ToastTypeOK'
  OBVIOUS
<1>1. CASE TimePasses
  <2>1. now' = now + 1 /\ now \in Nat /\ now' \in 0..EndOfTime /\ 0..now \subseteq 0..now'
    BY <1>1, ToastNumbers DEF TimePasses, ToastTypeOK
  <2> QED
    BY <1>1, <2>1 DEF TimePasses, ToastTypeOK
<1>2. CASE GameFound
  <2>1. games' = games + 1 /\ games \in Nat /\ games' \in 0..MaxGames /\ 0..games \subseteq 0..games'
    BY <1>2, ToastNumbers DEF GameFound, ToastTypeOK
  <2> QED
    BY <1>2, <2>1 DEF GameFound, ToastTypeOK
<1>3. CASE GameLost
  BY <1>3 DEF GameLost, ToastTypeOK
<1>4. ASSUME NEW o \in Opts, Fails(o) PROVE ToastTypeOK'
  <2>1. now \in 0..now
    BY DEF ToastTypeOK
  <2> QED
    BY <1>4, <2>1 DEF Fails, ToastTypeOK
<1>5. ASSUME NEW o \in Opts, Succeeds(o) PROVE ToastTypeOK'
  BY <1>5 DEF Succeeds, ToastTypeOK
<1>6. CASE BeginFrame
  <2>1. /\ frame' \in 0..(Switches + 1) /\ frameAt' \in 0..now /\ delta' \in 0..now
        /\ lastPid' \in 0..games
    BY <1>6, ToastNumbers DEF BeginFrame, ToastTypeOK
  <2>2. (IF pid # 0 THEN Found(pid) ELSE Closed) \in (-MaxGames)..Switches
    BY ToastNumbers DEF ToastTypeOK, Found, Closed
  <2>3. toasts' \in Seq(Toasts) /\ Len(toasts') <= Max2
    BY <1>6, <2>2, NotifiedType DEF BeginFrame, ToastTypeOK
  <2> QED
    BY <1>6, <2>1, <2>3 DEF BeginFrame, ToastTypeOK
<1>7. CASE CollectFailure
  <2>1. frame' \in 0..(Switches + 1)
    BY <1>7, ToastNumbers DEF CollectFailure, ToastTypeOK, Opts
  <2>2. frame \in Opts /\ frame \in (-MaxGames)..Switches
    BY <1>7, ToastNumbers DEF CollectFailure, Opts
  <2>3. toasts' \in Seq(Toasts) /\ Len(toasts') <= Max2
    BY <1>7, <2>2, NotifiedType DEF CollectFailure, ToastTypeOK
  <2>4. Age(frame) \in {Unseen} \cup 0..now
    BY <2>2 DEF Age, ToastTypeOK, Never
  <2>5. /\ seen' \in [Opts -> {Unseen} \cup 0..now] /\ news' \subseteq Opts
        /\ shown' \in [Opts -> {Never} \cup 0..now]
    BY <1>7, <2>2, <2>4 DEF CollectFailure, ToastTypeOK
  <2> QED
    BY <1>7, <2>1, <2>3, <2>5 DEF CollectFailure, ToastTypeOK
<1>8. CASE RenderToasts
  <2>1. /\ Fresh(1) \in Seq(Toasts) /\ (Len(Fresh(1)) = 0 \/ Len(Fresh(1)) = 1)
        /\ Fresh(2) \in Seq(Toasts) /\ (Len(Fresh(2)) = 0 \/ Len(Fresh(2)) = 1)
    BY FreshType, ToastNumbers DEF ToastTypeOK
  <2>2. toasts' \in Seq(Toasts) /\ Len(toasts') = Len(Fresh(1)) + Len(Fresh(2))
    BY <1>8, <2>1 DEF RenderToasts, Max2
  <2> DEFINE a == Len(Fresh(1))
             b == Len(Fresh(2))
  <2>3. Len(toasts') <= 2
    <3> HIDE DEF a, b
    <3>1. (a = 0 \/ a = 1) /\ (b = 0 \/ b = 1) /\ Len(toasts') = a + b
      BY <2>1, <2>2 DEF a, b
    <3> QED
      BY <3>1
  <2>4. frame' \in 0..(Switches + 1)
    BY <1>8, ToastNumbers DEF RenderToasts, NoFrame
  <2> QED
    BY <1>8, <2>2, <2>3, <2>4 DEF RenderToasts, ToastTypeOK, Max2
<1>9. CASE UNCHANGED toastVars
  BY <1>9 DEF toastVars, ToastTypeOK
<1> QED
  BY <1>1, <1>2, <1>3, <1>4, <1>5, <1>6, <1>7, <1>8, <1>9 DEF ToastNext

LEMMA FrameClockNext ==
  ASSUME ToastTypeOK, FrameClock, [ToastNext]_toastVars
  PROVE  FrameClock'
<1>1. CASE TimePasses
  BY <1>1 DEF TimePasses, FrameClock
<1>2. CASE BeginFrame
  BY <1>2 DEF BeginFrame, FrameClock
<1>3. CASE CollectFailure
  BY <1>3 DEF CollectFailure, FrameClock, NoFrame, Opts
<1>4. CASE RenderToasts
  BY <1>4 DEF RenderToasts, FrameClock
<1>5. CASE \E o \in Opts : Fails(o) \/ Succeeds(o)
  BY <1>5 DEF Fails, Succeeds, FrameClock
<1>6. CASE GameFound \/ GameLost \/ UNCHANGED toastVars
  BY <1>6 DEF GameFound, GameLost, toastVars, FrameClock
<1> QED
  BY <1>1, <1>2, <1>3, <1>4, <1>5, <1>6 DEF ToastNext

LEMMA MarkNumbers ==
  ASSUME ToastTypeOK, NEW o \in Opts
  PROVE  /\ now \in Int /\ frameAt \in Int /\ delta \in Int /\ frame \in Int /\ o \in Int /\ 1 <= o
         /\ failedAt[o] \in Int /\ shown[o] \in Int /\ seen[o] \in Int
         /\ o <= Switches /\ Switches \in Int /\ LastLook(o) \in Int
         /\ frameAt <= now /\ delta >= 0 /\ failedAt[o] <= now
         /\ failedAt[o] # Never => failedAt[o] >= 0
         /\ seen[o] # Unseen => seen[o] >= 0
BY ToastNumbers DEF ToastTypeOK, Opts, Never, Unseen, LastLook

(* A frame finds the failure of an option new exactly if it is news and can  *)
(* be told from the one shown before.                                        *)
LEMMA NewIsNews ==
  ASSUME ToastTypeOK, FrameClock, NEW o \in Opts, Marks(o), frame = o
  PROVE  IsNew(o) <=> o \in news /\ TellsApart(o)
<1>1. LastLook(o) = frameAt - delta /\ now = frameAt
  BY MarkNumbers DEF LastLook, FrameClock, NoFrame
<1>2. seen[o] # Unseen => seen[o] = now - delta - shown[o] /\ seen[o] >= 0
  BY <1>1, MarkNumbers DEF Marks
<1>3. CASE o \in news
  <2>1. Age(o) = now - failedAt[o] /\ Age(o) >= 0
    BY <1>3, MarkNumbers DEF Marks, Age
  <2>2. CASE seen[o] = Unseen
    BY <1>3, <2>1, <2>2 DEF IsNew, TellsApart, Marks, Unseen
  <2>3. CASE seen[o] # Unseen
    <3>1. shown[o] # Never /\ ~(seen[o] < 0)
      BY <1>2, <2>3, MarkNumbers DEF Marks
    <3>2. Age(o) < seen[o] <=> failedAt[o] - shown[o] > delta
      BY <1>2, <2>1, <2>3, MarkNumbers
    <3> QED
      BY <1>3, <2>1, <3>1, <3>2 DEF IsNew, TellsApart
  <2> QED
    BY <2>2, <2>3
<1>4. CASE o \notin news
  <2>1. CASE failedAt[o] = Never
    BY <1>4, <2>1 DEF IsNew, Age, Unseen
  <2>2. CASE failedAt[o] # Never
    <3>1. shown[o] = failedAt[o] /\ seen[o] # Unseen
      BY <1>4, <2>2 DEF Marks
    <3>2. Age(o) = now - failedAt[o] /\ Age(o) >= seen[o] /\ seen[o] >= 0
      BY <1>2, <2>2, <3>1, MarkNumbers DEF Age
    <3> QED
      BY <1>4, <3>2, MarkNumbers DEF IsNew
  <2> QED
    BY <2>1, <2>2
<1> QED
  BY <1>3, <1>4

LEMMA MarksNext ==
  ASSUME ToastInv, [ToastNext]_toastVars, NEW o \in Opts
  PROVE  Marks(o)'
<1>0. ToastTypeOK /\ FrameClock /\ Marks(o)
  BY DEF ToastInv
<1>1. CASE TimePasses
  <2>1. LastLook(o)' = LastLook(o) /\ ~(frame' > o)
    BY <1>0, <1>1, MarkNumbers DEF TimePasses, LastLook, NoFrame
  <2> QED
    BY <1>0, <1>1, <2>1 DEF TimePasses, Marks
<1>2. CASE GameFound \/ GameLost \/ UNCHANGED toastVars
  <2>1. LastLook(o)' = LastLook(o)
    BY <1>2 DEF GameFound, GameLost, toastVars, LastLook
  <2> QED
    BY <1>0, <1>2, <2>1 DEF GameFound, GameLost, toastVars, Marks
<1>3. ASSUME NEW p \in Opts, Fails(p) PROVE Marks(o)'
  <2>1. LastLook(o)' = LastLook(o) /\ UNCHANGED <<now, seen, shown, frame>>
    BY <1>3 DEF Fails, LastLook
  <2>2. CASE p # o
    <3>1. failedAt'[o] = failedAt[o] /\ (o \in news') = (o \in news)
      BY <1>0, <1>3, <2>2 DEF Fails, ToastTypeOK
    <3> QED
      BY <1>0, <2>1, <3>1 DEF Marks
  <2>3. CASE p = o
    <3>1. failedAt'[o] = now /\ o \in news'
      BY <1>0, <1>3, <2>3 DEF Fails, ToastTypeOK
    <3>2. now # Never
      BY <1>0 DEF ToastTypeOK, Never
    <3> QED
      BY <1>0, <2>1, <3>1, <3>2 DEF Marks
  <2> QED
    BY <2>2, <2>3
<1>4. ASSUME NEW p \in Opts, Succeeds(p) PROVE Marks(o)'
  <2>1. LastLook(o)' = LastLook(o) /\ UNCHANGED <<now, seen, shown, frame>>
    BY <1>4 DEF Succeeds, LastLook
  <2>2. CASE p # o
    <3>1. failedAt'[o] = failedAt[o] /\ (o \in news') = (o \in news)
      BY <1>0, <1>4, <2>2 DEF Succeeds, ToastTypeOK
    <3> QED
      BY <1>0, <2>1, <3>1 DEF Marks
  <2>3. CASE p = o
    <3>1. failedAt'[o] = Never /\ o \notin news'
      BY <1>0, <1>4, <2>3 DEF Succeeds, ToastTypeOK
    <3> QED
      BY <1>0, <2>1, <3>1 DEF Marks
  <2> QED
    BY <2>2, <2>3
<1>5. CASE BeginFrame
  <2>1. /\ frame = NoFrame /\ frame' = 1 /\ frameAt' = now /\ delta' = now - frameAt
        /\ UNCHANGED <<now, failedAt, seen, shown, news>>
    BY <1>5 DEF BeginFrame
  <2>2. LastLook(o) = frameAt /\ LastLook(o)' = frameAt
    BY <1>0, <2>1, MarkNumbers DEF LastLook, NoFrame
  <2>3. ~ (frame' > o)
    BY <1>0, <2>1, MarkNumbers
  <2> QED
    BY <1>0, <2>1, <2>2, <2>3 DEF Marks
<1>6. CASE CollectFailure
  <2>0. /\ frame \in Opts /\ frame' = frame + 1 /\ now = frameAt
        /\ UNCHANGED <<now, failedAt, frameAt, delta>>
    BY <1>0, <1>6, MarkNumbers DEF CollectFailure, FrameClock, NoFrame
  <2>1. CASE frame # o
    <3>1. LastLook(o)' = LastLook(o)
      BY <1>0, <2>0, <2>1, MarkNumbers DEF LastLook
    <3>2. seen'[o] = seen[o] /\ shown'[o] = shown[o] /\ (o \in news') = (o \in news)
      BY <1>0, <1>6, <2>1 DEF CollectFailure, ToastTypeOK
    <3>3. frame' > o => frame > o
      BY <1>0, <2>0, <2>1, MarkNumbers
    <3> QED
      BY <1>0, <2>0, <3>1, <3>2, <3>3 DEF Marks
  <2>2. CASE frame = o
    <3>1. LastLook(o)' = frameAt
      BY <1>0, <2>0, <2>2, MarkNumbers DEF LastLook
    <3>2. seen'[o] = Age(o) /\ shown'[o] = failedAt[o] /\ o \notin news'
      BY <1>0, <1>6, <2>2 DEF CollectFailure, ToastTypeOK
    <3>3. failedAt[o] # Never => Age(o) = frameAt - failedAt[o] /\ Age(o) # Unseen
      BY <1>0, <2>0, MarkNumbers DEF Age, Unseen
    <3>4. failedAt[o] = Never => Age(o) = Unseen
      BY DEF Age
    <3> QED
      BY <2>0, <3>1, <3>2, <3>3, <3>4 DEF Marks
  <2> QED
    BY <2>1, <2>2
<1>7. CASE RenderToasts
  <2>1. /\ frame = Switches + 1 /\ frame' = 0
        /\ UNCHANGED <<now, failedAt, frameAt, delta, seen, shown, news>>
    BY <1>7 DEF RenderToasts, Rendering, NoFrame
  <2>2. LastLook(o)' = LastLook(o) /\ ~(frame' > o)
    BY <1>0, <2>1, MarkNumbers DEF LastLook
  <2> QED
    BY <1>0, <2>1, <2>2 DEF Marks
<1> QED
  BY <1>1, <1>2, <1>3, <1>4, <1>5, <1>6, <1>7 DEF ToastNext

(* The notifications keep their types: never more than two of them.          *)
THEOREM ToastTypeCorrect == ToastSpec => []ToastTypeOK
<1>1. ToastInit => ToastTypeOK
  BY ToastInitKeeps DEF ToastInv
<1> QED
  BY <1>1, ToastTypesNext, PTL DEF ToastSpec

(* Whatever the frames and the failures do, a frame looks at every failure   *)
(* older than itself, and notifies it exactly if the failure is younger than *)
(* the one looked at before by more than the time the frame took to come;    *)
(* none is notified twice (MainView.h:80).                                   *)
THEOREM FailuresNotified == ToastSpec => FailureIsNotified
<1>1. ToastInv /\ [ToastNext]_toastVars => ToastInv'
  BY ToastTypesNext, FrameClockNext, MarksNext DEF ToastInv, Opts
<1>2. ToastInv /\ [ToastNext]_toastVars =>
        [ /\ CollectFailure => (IsNew(frame) <=> frame \in news /\ TellsApart(frame))
          /\ RenderToasts => \A o \in news : failedAt[o] = now ]_toastVars
  <2> SUFFICES ASSUME ToastInv
               PROVE  /\ CollectFailure => (IsNew(frame) <=> frame \in news /\ TellsApart(frame))
                      /\ RenderToasts => \A o \in news : failedAt[o] = now
    OBVIOUS
  <2>1. ASSUME CollectFailure PROVE IsNew(frame) <=> frame \in news /\ TellsApart(frame)
    BY <2>1, NewIsNews DEF CollectFailure, ToastInv
  <2>2. ASSUME RenderToasts, NEW o \in news PROVE failedAt[o] = now
    <3>1. o \in Opts /\ frame = Switches + 1 /\ ToastTypeOK /\ Marks(o)
      BY <2>2 DEF ToastInv, ToastTypeOK, RenderToasts, Rendering
    <3>2. frame > o
      BY <3>1, MarkNumbers
    <3> QED
      BY <2>2, <3>1, <3>2 DEF Marks
  <2> QED
    BY <2>1, <2>2
<1> QED
  BY <1>1, <1>2, ToastInitKeeps, PTL DEF ToastSpec, FailureIsNotified

-----------------------------------------------------------------------------
(* The parts together.                                                       *)

WindowTypes == MCTypeOK /\ CommandApart

LEMMA PartInitTypes ==
  /\ ToastInit => ToastTypeOK
  /\ AudioInit => AudioTypeOK
  /\ ConsoleInit => ConsoleTypeOK /\ CommandApart
BY ToastInitKeeps, SoundInit, ConsoleInitKeeps DEF ToastInv, SoundInv, ConsoleInv

(* Every variable of the parts around the window keeps its type, also where  *)
(* a button of the window plays sounds.                                      *)
THEOREM WindowTypeCorrect == MCSpec => []MCTypeOK
<1>1. MCInit => WindowTypes
  BY HotkeyTypesInit, PartInitTypes DEF MCInit, WindowTypes, MCTypeOK
<1>2. WindowTypes /\ [MCNext]_MCVars => WindowTypes'
  <2> SUFFICES ASSUME WindowTypes, [MCNext]_MCVars PROVE WindowTypes'
    OBVIOUS
  <2>1. /\ [HotkeyNext]_hotkeyVars /\ [ToastNext]_toastVars
        /\ [AudioNext]_audioVars /\ [ConsoleNext]_consoleVars /\ part' = part
    BY DEF MCNext, Rest, MCVars
  <2>2. HotkeyTypeOK' /\ AudioTypeOK'
    BY <2>1, HotkeyTypesNext, AudioTypesNext DEF WindowTypes, MCTypeOK
  <2>3. ToastTypeOK'
    BY <2>1, ToastTypesNext DEF WindowTypes, MCTypeOK
  <2>4. ConsoleTypeOK'
    BY <2>1, ConsoleTypesNext DEF WindowTypes, MCTypeOK
  <2>5. CommandApart'
    BY <2>1 DEF ConsoleNext, LogLine, FrameBegins, DrawItem, DrawingDone, CommandGiven, CommandPrints,
       CommandClears, CommandDone, consoleVars, CommandApart, WindowTypes
  <2> QED
    BY <2>1, <2>2, <2>3, <2>4, <2>5 DEF WindowTypes, MCTypeOK
<1>3. WindowTypes => MCTypeOK
  BY DEF WindowTypes
<1> QED
  BY <1>1, <1>2, <1>3, PTL DEF MCSpec

=============================================================================
