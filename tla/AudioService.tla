---------------------------- MODULE AudioService ----------------------------
(***************************************************************************)
(* platform/AudioService.cpp: the sounds of the trainer, played by the      *)
(* worker while it runs and by the window's thread after it was joined      *)
(* (app/Application.cpp, cheats/CheatOptionManager.cpp).  The service has   *)
(* no lock.  It starts its engine with the first sound; a voice is a source *)
(* voice of XAudio2, which plays on by itself.                              *)
(***************************************************************************)
EXTENDS Integers

CONSTANTS
  MaxVoices,    \* bound: voices created
  ValueFields   \* whether the window has value fields, whose button plays a
                \* sound on the window's thread while the worker runs

ASSUME AudioAssumption ==
  /\ MaxVoices \in Nat
  /\ ValueFields \in BOOLEAN

VARIABLES
  phase,      \* the life of the program, see Phases
  playing,    \* playing[t]: where thread t is in Play
  sound,      \* _enabled
  impl,       \* the engine _impl points to, or NoEngine
  engines,    \* the engines that exist
  voice,      \* voice[v]: what has become of voice v
  active,     \* activeVoices of _impl
  met         \* history: both threads have been in Play at the same time

audioVars == <<phase, playing, sound, impl, engines, voice, active, met>>

Threads == {"worker", "window"}
NoEngine == 0
Voices == 1..MaxVoices

(* "run": the worker runs; "tasks": it is joined and the posted tasks run on *)
(* the window's thread; "restore": DisableAll; "exit": Application is being  *)
(* destroyed; "over".                                                        *)
Phases == {"run", "tasks", "restore", "exit", "over"}

AudioTypeOK ==
  /\ phase \in Phases
  /\ playing \in [Threads -> {"no", "starts", "engine", "voice", "submits"}]
  /\ sound \in BOOLEAN
  /\ impl \in 0..2 /\ engines \subseteq 1..2
  /\ voice \in [Voices -> {"none", "made", "sounds", "silent", "destroyed"}]
  /\ active \subseteq Voices
  /\ met \in BOOLEAN

AudioInit ==
  /\ phase = "run"
  /\ playing = [t \in Threads |-> "no"]
  /\ sound = TRUE
  /\ impl = NoEngine /\ engines = {}
  /\ voice = [v \in Voices |-> "none"]
  /\ active = {}
  /\ met = FALSE

Go(t, from, to) ==
  /\ playing[t] = from
  /\ playing' = [playing EXCEPT ![t] = to]

-----------------------------------------------------------------------------
(* Play, called where an option was switched or a value written.             *)

MayPlay(t) ==
  \/ t = "worker" /\ phase = "run"
  \/ t = "window" /\ phase \in {"tasks", "restore"}
  \/ t = "window" /\ phase = "run" /\ ValueFields

Play(t) ==
  /\ MayPlay(t)
  /\ sound
  /\ Go(t, "no", IF impl = NoEngine THEN "starts" ELSE "engine")
  /\ met' = (met \/ \E u \in Threads \ {t} : playing[u] # "no")
  /\ UNCHANGED <<phase, sound, impl, engines, voice, active>>

(* Initialize: the engine is there before _impl points to it.                *)
CreateEngine(t) ==
  /\ Go(t, "starts", "engine")
  /\ \E e \in (1..2) \ engines :
       /\ engines' = engines \cup {e}
       /\ impl' = e
  /\ UNCHANGED <<phase, sound, voice, active, met>>

NoDevice(t) ==
  /\ Go(t, "starts", "no")
  /\ UNCHANGED <<phase, sound, impl, engines, voice, active, met>>

(* Voices that have played their buffer are destroyed.                       *)
ReapFinishedVoices(t) ==
  /\ Go(t, "engine", "voice")
  /\ LET finished == {v \in active : voice[v] = "silent"}
     IN /\ voice' = [v \in Voices |-> IF v \in finished THEN "destroyed" ELSE voice[v]]
        /\ active' = active \ finished
  /\ UNCHANGED <<phase, sound, impl, engines, met>>

CreateSourceVoice(t) ==
  /\ Go(t, "voice", "submits")
  /\ \E v \in Voices :
       /\ voice[v] = "none"
       /\ voice' = [voice EXCEPT ![v] = "made"]
  /\ UNCHANGED <<phase, sound, impl, engines, active, met>>

NoVoice(t) ==
  /\ Go(t, "voice", "no")
  /\ UNCHANGED <<phase, sound, impl, engines, voice, active, met>>

(* The program has no such sound.                                            *)
NoSound(t) ==
  /\ Go(t, "engine", "no")
  /\ UNCHANGED <<phase, sound, impl, engines, voice, active, met>>

(* SubmitSourceBuffer or Start fails.                                        *)
SubmitFails(t) ==
  /\ Go(t, "submits", "no")
  /\ \E v \in Voices :
       /\ voice[v] = "made"
       /\ voice' = [voice EXCEPT ![v] = "destroyed"]
  /\ UNCHANGED <<phase, sound, impl, engines, active, met>>

VoiceStarts(t) ==
  /\ Go(t, "submits", "no")
  /\ \E v \in Voices :
       /\ voice[v] = "made"
       /\ voice' = [voice EXCEPT ![v] = "sounds"]
       /\ active' = active \cup {v}
  /\ UNCHANGED <<phase, sound, impl, engines, met>>

(* The buffer of a voice has been played.                                    *)
VoiceEnds(v) ==
  /\ voice[v] = "sounds"
  /\ voice' = [voice EXCEPT ![v] = "silent"]
  /\ UNCHANGED <<phase, playing, sound, impl, engines, active, met>>

-----------------------------------------------------------------------------
(* The end of the program, on the window's thread.                           *)

NotPlaying(t) == playing[t] = "no"

(* MUTANT of WorkerJoined: the worker is not waited for.                     *)
WorkerJoined_NoJoin ==
  /\ phase = "run" /\ NotPlaying("window")
  /\ phase' = "tasks"
  /\ UNCHANGED <<playing, sound, impl, engines, voice, active, met>>

WorkerJoined ==
  /\ phase = "run" /\ NotPlaying("window") /\ NotPlaying("worker")
  /\ phase' = "tasks"
  /\ UNCHANGED <<playing, sound, impl, engines, voice, active, met>>

(* DisableAll mutes the service (MuteWhileRestoring) ...                     *)
DisableAllBegins ==
  /\ phase = "tasks" /\ NotPlaying("window")
  /\ phase' = "restore"
  /\ sound' = FALSE
  /\ UNCHANGED <<playing, impl, engines, voice, active, met>>

(* ... and unmutes it.                                                       *)
DisableAllEnds ==
  /\ phase = "restore" /\ NotPlaying("window")
  /\ phase' = "exit"
  /\ sound' = TRUE
  /\ UNCHANGED <<playing, impl, engines, voice, active, met>>

(* ~Application: DestroyAllVoices and the engine.                            *)
Shutdown ==
  /\ phase = "exit"
  /\ phase' = "over"
  /\ voice' = [v \in Voices |-> IF v \in active THEN "destroyed" ELSE voice[v]]
  /\ active' = {}
  /\ engines' = engines \ {impl}
  /\ impl' = NoEngine
  /\ UNCHANGED <<playing, sound, met>>

AudioNext ==
  \/ \E t \in Threads :
       \/ Play(t) \/ CreateEngine(t) \/ NoDevice(t)
       \/ NoSound(t) \/ ReapFinishedVoices(t)
       \/ CreateSourceVoice(t) \/ NoVoice(t)
       \/ SubmitFails(t) \/ VoiceStarts(t)
  \/ \E v \in Voices : VoiceEnds(v)
  \/ WorkerJoined
  \/ DisableAllBegins
  \/ DisableAllEnds
  \/ Shutdown

AudioSpec == AudioInit /\ [][AudioNext]_audioVars

-----------------------------------------------------------------------------
(* The list of voices and _impl have no lock: at most one thread is in Play. *)
OneThreadPlays ==
  \A t, u \in Threads : ~NotPlaying(t) /\ ~NotPlaying(u) => t = u

(* The list holds no destroyed voice, and every voice that exists is in it   *)
(* or is the one a Play is still working on.                                 *)
VoicesAreKept ==
  \A v \in Voices :
    /\ voice[v] \in {"sounds", "silent"} <=> v \in active
    /\ voice[v] = "made" => \E t \in Threads : playing[t] = "submits"

(* One engine at most, the one _impl points to.                              *)
OneEngine == engines = IF impl = NoEngine THEN {} ELSE {impl}

(* platform/AudioService.h:21-24: two sounds in a row used to cut each other *)
(* off, "XAudio2 mixes them properly".  Whoever plays, there is one engine   *)
(* that mixes and every voice is kept until it has been heard.               *)
SoundsAreMixed == OneEngine /\ VoicesAreKept

(* Nothing is left when the program has ended.                               *)
NothingRemains == engines = {} /\ \A v \in Voices : voice[v] \in {"none", "destroyed"}

(* The service has no lock and lives from its callers taking turns: the      *)
(* worker until it is joined, the window's thread afterwards.  Only a value  *)
(* field can bring both into Play, and only while the worker runs; the       *)
(* posted tasks, DisableAll and the destruction never meet the worker.  As   *)
(* long as the two have not met there, nothing of the service is used twice, *)
(* freed twice or left behind, value fields or not and whichever calls of    *)
(* XAudio2 fail.  Once they have met nothing is promised: SoundsAreMixed.    *)
SoundIsSafe ==
  /\ ~OneThreadPlays => ValueFields /\ phase = "run"
  /\ ~met => VoicesAreKept /\ OneEngine
  /\ ~met /\ phase = "over" => NothingRemains
=============================================================================
