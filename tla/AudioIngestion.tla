--------------------------- MODULE AudioIngestion ---------------------------
(***************************************************************************)
(* Audio ingestion (src/app/audio/ingestion): the registry of sessions,    *)
(* the silence detector of each, the buffers, and the threads that call    *)
(* the service.  Threads interleave at the locks of the code: a step below *)
(* is what a thread does up to the next place where another may run.  Time *)
(* is counted in ticks, and kept as the age of an event, up to the age     *)
(* that the code compares with.                                            *)
(***************************************************************************)
EXTENDS Naturals, FiniteSets, Sequences, SequencesExt

CONSTANTS Exchanges,    \* interview exchanges
          Controllers,  \* threads that start, pause, resume and stop sessions
          Streams,      \* threads that send audio
          Cleaners,     \* threads that clean up idle sessions
          Sessions,     \* audio sessions that can be made, in order
          Detectors,    \* silence detectors that can be made, in order
          Chunks,       \* audio chunks that can be sent, in any order
          Stamp,        \* [Chunks -> timestamp (ms), the client's]
          Threshold,    \* silence_threshold_ms, in ticks
          Timeout,      \* session_timeout_s, in ticks
          WindowMs,     \* buffer_window_ms
          BufferMs,     \* max_buffer_duration_s
          None

ASSUME AudioAssumption ==
    /\ Sessions \cup Detectors \cup Chunks \subseteq Nat
    /\ Stamp \in [Chunks -> Nat]
    /\ {Threshold, WindowMs, BufferMs} \subseteq Nat \ {0}
    /\ Timeout \in Nat
    /\ None \notin Exchanges \cup Sessions \cup Detectors

VARIABLES
    registry,   \* [Exchanges -> session or None]: _sessions
    buffers,    \* [Exchanges -> session whose buffer it is, or None]: _buffers
    session,    \* [Sessions -> AudioSession]
    detector,   \* [Detectors -> SilenceDetector]
    checks,     \* [Detectors -> number of timer threads waiting for its lock]
    content,    \* [Sessions -> chunks in the buffer made for it]
    sent,       \* chunks that have been sent
    forwarded,  \* [Chunks -> times it was handed to transcription]
    ended,      \* [Sessions -> session_ended callbacks called]
    caller      \* [Callers -> where the thread is, and its locals]

Callers == Controllers \cup Streams \cup Cleaners

vars == <<registry, buffers, session, detector, checks, content, sent,
          forwarded, ended, caller>>

-----------------------------------------------------------------------------
(* Objects                                                                 *)

Idle == [at |-> "idle", exchange |-> None, session |-> None, buffer |-> None,
         chunk |-> None, gone |-> {}]

At(c, p) == caller[c].at = p
Goto(c, p) == caller' = [caller EXCEPT ![c].at = p]
Done(c) == caller' = [caller EXCEPT ![c] = Idle]

NoSession == [made |-> FALSE, exchange |-> None, active |-> FALSE,
              paused |-> FALSE, idle |-> 0, detector |-> None]

NoDetector == [owner |-> None, closed |-> FALSE, age |-> None, timer |-> None,
               triggered |-> FALSE]

Unmade(f, none) == {x \in DOMAIN f : f[x] = none}
Next1(S) == CHOOSE x \in S : \A y \in S : x <= y

(* SilenceDetector.cancel: closed, the timer cancelled, no event.          *)
Cancelled(d) == [d EXCEPT !.closed = TRUE, !.timer = None]

-----------------------------------------------------------------------------
(* Buffers: chunks in the order of their timestamps, cut into windows      *)

Sorted(S) == SetToSortSeq(S, LAMBDA a, b :
                Stamp[a] < Stamp[b] \/ (Stamp[a] = Stamp[b] /\ a < b))

(* The number of windows: a chunk past the end of a window starts another. *)
Windows(S) ==
    FoldLeft(LAMBDA w, k : IF w.count > 0 /\ Stamp[k] < w.end
                           THEN w
                           ELSE [count |-> w.count + 1,
                                 end |-> Stamp[k] + WindowMs],
             [count |-> 0, end |-> 0], Sorted(S)).count

(* add_chunk drops what is older than the newest chunk by BufferMs.        *)
Evict(S) ==
    LET newest == CHOOSE t \in {Stamp[k] : k \in S} : \A k \in S : Stamp[k] <= t
    IN  {k \in S : Stamp[k] + BufferMs >= newest}

(* Mutation: windows are handed out and kept, as get_windows does.         *)
FlushKeeps(s) ==
    /\ forwarded' = [k \in Chunks |-> forwarded[k] +
                                      (IF k \in content[s] THEN 1 ELSE 0)]
    /\ UNCHANGED content

(* flush: everything in the buffer goes to the transcription callback.     *)
Flush(s) ==
    /\ forwarded' = [k \in Chunks |-> forwarded[k] +
                                      (IF k \in content[s] THEN 1 ELSE 0)]
    /\ content' = [content EXCEPT ![s] = {}]

-----------------------------------------------------------------------------
(* start_session: the session is registered under the lock of the manager, *)
(* its buffer is put into the table afterwards.                            *)

StartSession(c, e) ==
    /\ At(c, "idle")
    /\ registry[e] = None
    /\ Unmade(session, NoSession) # {} /\ Unmade(detector, NoDetector) # {}
    /\ LET s == Next1(Unmade(session, NoSession))
           d == Next1(Unmade(detector, NoDetector))
       IN  /\ session' = [session EXCEPT ![s] =
                 [NoSession EXCEPT !.made = TRUE, !.exchange = e,
                                   !.active = TRUE, !.detector = d]]
           /\ detector' = [detector EXCEPT ![d].owner = s]
           /\ registry' = [registry EXCEPT ![e] = s]
           /\ caller' = [caller EXCEPT ![c] =
                 [Idle EXCEPT !.at = "buffer", !.exchange = e, !.session = s]]
    /\ UNCHANGED <<buffers, checks, content, sent, forwarded, ended>>

CreateBuffer(c) ==
    /\ At(c, "buffer")
    /\ buffers' = [buffers EXCEPT ![caller[c].exchange] = caller[c].session]
    /\ Done(c)
    /\ UNCHANGED <<registry, session, detector, checks, content, sent,
                   forwarded, ended>>

-----------------------------------------------------------------------------
(* pause_session and resume_session look the session up under the lock,    *)
(* release it, and take it again to change the session.                    *)

GetSession(c, e, op) ==
    /\ At(c, "idle")
    /\ registry[e] # None
    /\ caller' = [caller EXCEPT ![c] =
          [Idle EXCEPT !.at = op, !.exchange = e, !.session = registry[e]]]
    /\ UNCHANGED <<registry, buffers, session, detector, checks, content,
                   sent, forwarded, ended>>

PauseSession(c) ==
    LET s == caller[c].session
        d == session[s].detector
    IN  /\ At(c, "pause")
        /\ session' = [session EXCEPT ![s].paused = TRUE]
        /\ detector' = [detector EXCEPT ![d] = Cancelled(@)]
        /\ Done(c)
        /\ UNCHANGED <<registry, buffers, checks, content, sent, forwarded,
                       ended>>

(* The detector is replaced, whether or not the session was paused.        *)
ResumeSession(c) ==
    LET s == caller[c].session IN
    /\ At(c, "resume")
    /\ Unmade(detector, NoDetector) # {}
    /\ LET d == Next1(Unmade(detector, NoDetector))
       IN  /\ session' = [session EXCEPT ![s].paused = FALSE,
                                         ![s].detector = d]
           /\ detector' = [detector EXCEPT ![d].owner = s]
    /\ Done(c)
    /\ UNCHANGED <<registry, buffers, checks, content, sent, forwarded,
                   ended>>

-----------------------------------------------------------------------------
(* stop_session: the buffer is taken out and flushed, then the session is  *)
(* taken out, closed, and its end announced outside the lock.              *)

StopFlush(c, e) ==
    /\ At(c, "idle")
    /\ \/ /\ buffers[e] # None
          /\ Flush(buffers[e])
       \/ /\ buffers[e] = None
          /\ registry[e] # None
          /\ UNCHANGED <<forwarded, content>>
    /\ buffers' = [buffers EXCEPT ![e] = None]
    /\ caller' = [caller EXCEPT ![c] =
                     [Idle EXCEPT !.at = "remove", !.exchange = e]]
    /\ UNCHANGED <<registry, session, detector, checks, sent, ended>>

(* Mutation: the session is looked up, and left in the registry.           *)
StopFinds(c) ==
    LET e == caller[c].exchange IN
    /\ At(c, "remove")
    /\ registry[e] # None
    /\ caller' = [caller EXCEPT ![c].at = "close", ![c].session = registry[e]]
    /\ UNCHANGED <<registry, buffers, session, detector, checks, content,
                   sent, forwarded, ended>>

StopRemove(c) ==
    LET e == caller[c].exchange IN
    /\ At(c, "remove")
    /\ \/ /\ registry[e] = None          \* SessionNotFoundError
          /\ Done(c)
       \/ /\ registry[e] # None
          /\ caller' = [caller EXCEPT ![c].at = "close",
                                      ![c].session = registry[e]]
    /\ registry' = [registry EXCEPT ![e] = None]
    /\ UNCHANGED <<buffers, session, detector, checks, content, sent,
                   forwarded, ended>>

(* close_session decides the event unless the detector is closed already.  *)
StopClose(c) ==
    LET s == caller[c].session
        d == session[s].detector
    IN  /\ At(c, "close")
        /\ session' = [session EXCEPT ![s].active = FALSE]
        /\ \/ /\ detector[d].closed
              /\ Done(c)
              /\ UNCHANGED detector
           \/ /\ ~detector[d].closed
              /\ detector' = [detector EXCEPT ![d] = Cancelled(@)]
              /\ Goto(c, "announce")
        /\ UNCHANGED <<registry, buffers, checks, content, sent, forwarded,
                       ended>>

StopAnnounce(c) ==
    /\ At(c, "announce")
    /\ ended' = [ended EXCEPT ![caller[c].session] = @ + 1]
    /\ Done(c)
    /\ UNCHANGED <<registry, buffers, session, detector, checks, content,
                   sent, forwarded>>

-----------------------------------------------------------------------------
(* ingest_chunk: the session is looked up and checked, the buffer looked   *)
(* up and filled, the detector fed, and full windows forwarded.            *)

IngestCheck(c, e) ==
    /\ At(c, "idle")
    /\ registry[e] # None
    /\ session[registry[e]].active /\ ~session[registry[e]].paused
    /\ \E k \in Chunks \ sent :
          /\ sent' = sent \cup {k}
          /\ caller' = [caller EXCEPT ![c] =
                [Idle EXCEPT !.at = "find", !.exchange = e,
                             !.session = registry[e], !.chunk = k]]
    /\ UNCHANGED <<registry, buffers, session, detector, checks, content,
                   forwarded, ended>>

IngestFind(c) ==
    LET b == buffers[caller[c].exchange] IN
    /\ At(c, "find")
    /\ caller' = [caller EXCEPT ![c].at = IF b = None THEN "feed" ELSE "add",
                                ![c].buffer = b]
    /\ UNCHANGED <<registry, buffers, session, detector, checks, content,
                   sent, forwarded, ended>>

IngestAdd(c) ==
    LET b == caller[c].buffer IN
    /\ At(c, "add")
    /\ content' = [content EXCEPT ![b] = Evict(@ \cup {caller[c].chunk})]
    /\ Goto(c, "feed")
    /\ UNCHANGED <<registry, buffers, session, detector, checks, sent,
                   forwarded, ended>>

(* Mutation: the running timer is left to run.                             *)
FeedOnce(d) == [d EXCEPT !.age = 0, !.triggered = FALSE,
                         !.timer = IF @ = None /\ d.age = None
                                   THEN Threshold ELSE @]

(* on_audio_chunk: the timer is cancelled and started again.               *)
Feed(d) == [d EXCEPT !.age = 0, !.triggered = FALSE, !.timer = Threshold]

IngestFeed(c) ==
    LET s == caller[c].session
        d == session[s].detector
    IN  /\ At(c, "feed")
        /\ session' = [session EXCEPT ![s].idle = 0]
        /\ detector' = [detector EXCEPT ![d] = IF @.closed THEN @ ELSE Feed(@)]
        /\ IF caller[c].buffer = None THEN Done(c) ELSE Goto(c, "windows")
        /\ UNCHANGED <<registry, buffers, checks, content, sent, forwarded,
                       ended>>

(* get_windows and flush take the lock of the buffer one after the other.  *)
IngestWindows(c) ==
    /\ At(c, "windows")
    /\ IF Windows(content[caller[c].buffer]) >= 2 THEN Goto(c, "forward")
       ELSE Done(c)
    /\ UNCHANGED <<registry, buffers, session, detector, checks, content,
                   sent, forwarded, ended>>

IngestForward(c) ==
    /\ At(c, "forward")
    /\ Flush(caller[c].buffer)
    /\ Done(c)
    /\ UNCHANGED <<registry, buffers, session, detector, checks, sent, ended>>

-----------------------------------------------------------------------------
(* cleanup_timed_out_sessions: idle sessions are taken out under the lock, *)
(* their end announced outside it, their buffers dropped at the end.  The  *)
(* detectors are not closed.                                               *)

TimedOut == {e \in Exchanges : registry[e] # None
                               /\ session[registry[e]].idle > Timeout}

CleanupRemove(c) ==
    /\ At(c, "idle")
    /\ Timeout > 0 /\ TimedOut # {}
    /\ registry' = [e \in Exchanges |-> IF e \in TimedOut THEN None
                                        ELSE registry[e]]
    /\ caller' = [caller EXCEPT ![c] =
          [Idle EXCEPT !.at = "expire",
                       !.gone = {registry[e] : e \in TimedOut}]]
    /\ UNCHANGED <<buffers, session, detector, checks, content, sent,
                   forwarded, ended>>

CleanupAnnounce(c) ==
    /\ At(c, "expire")
    /\ ended' = [s \in Sessions |-> ended[s] +
                                    (IF s \in caller[c].gone THEN 1 ELSE 0)]
    /\ Goto(c, "drop")
    /\ UNCHANGED <<registry, buffers, session, detector, checks, content,
                   sent, forwarded>>

CleanupDrop(c) ==
    /\ At(c, "drop")
    /\ LET dropped == {session[s].exchange : s \in caller[c].gone}
       IN  buffers' = [e \in Exchanges |-> IF e \in dropped THEN None
                                           ELSE buffers[e]]
    /\ Done(c)
    /\ UNCHANGED <<registry, session, detector, checks, content, sent,
                   forwarded, ended>>

-----------------------------------------------------------------------------
(* Timer threads.  The thread of a timer that elapsed waits for the lock of *)
(* the detector; cancelling the timer no longer stops it.                  *)

(* _check_silence; the callbacks of threshold_reached run after it, outside *)
(* the lock, and change nothing here.                                      *)
(* Mutation: the check trusts the timer and does not look at the clock.    *)
ClosedAlarm(d) == detector[d].closed

(* Mutation: the check does not look whether the session was closed.       *)
OpenAlarm(d) == detector[d].age \in {None} \cup 0 .. Threshold - 1

FalseAlarm(d) == \/ detector[d].closed
                 \/ detector[d].age \in {None} \cup 0 .. Threshold - 1

CheckSilence(d) ==
    /\ checks[d] > 0
    /\ checks' = [checks EXCEPT ![d] = @ - 1]
    /\ \/ /\ FalseAlarm(d)
          /\ UNCHANGED detector
       \/ /\ ~FalseAlarm(d)
          /\ detector' = [detector EXCEPT ![d].triggered = TRUE]
    /\ UNCHANGED <<registry, buffers, session, content, sent, forwarded,
                   ended, caller>>

Registered == {registry[e] : e \in Exchanges} \ {None}

(* A tick of the monotonic clock.  An age is kept up to what it is compared *)
(* with, and while something compares it; a timer that elapses wakes its   *)
(* thread.                                                                 *)
Heard(d) == ~detector[d].closed /\ detector[d].age # None

Tick ==
    /\ session' = [s \in Sessions |->
          IF s \in Registered /\ session[s].idle <= Timeout
          THEN [session[s] EXCEPT !.idle = @ + 1] ELSE session[s]]
    /\ detector' = [d \in Detectors |->
          IF ~Heard(d) THEN detector[d]
          ELSE [detector[d] EXCEPT
                  !.age = IF @ < Threshold THEN @ + 1 ELSE @,
                  !.timer = IF @ \in {1, None} THEN None ELSE @ - 1]]
    /\ checks' = [d \in Detectors |->
          IF detector[d].timer = 1 THEN checks[d] + 1 ELSE checks[d]]
    /\ UNCHANGED <<registry, buffers, content, sent, forwarded, ended, caller>>

-----------------------------------------------------------------------------
Init ==
    /\ registry = [e \in Exchanges |-> None]
    /\ buffers = [e \in Exchanges |-> None]
    /\ session = [s \in Sessions |-> NoSession]
    /\ detector = [d \in Detectors |-> NoDetector]
    /\ checks = [d \in Detectors |-> 0]
    /\ content = [s \in Sessions |-> {}]
    /\ sent = {}
    /\ forwarded = [k \in Chunks |-> 0]
    /\ ended = [s \in Sessions |-> 0]
    /\ caller = [c \in Callers |-> Idle]

(* What a caller chooses to do, and what a thread does once it has begun.  *)
Control(c) == \E e \in Exchanges :
    \/ StartSession(c, e)
    \/ \E op \in {"pause", "resume"} : GetSession(c, e, op)
    \/ StopFlush(c, e)

Continue(c) ==
    \/ CreateBuffer(c)
    \/ PauseSession(c) \/ ResumeSession(c)
    \/ StopRemove(c) \/ StopClose(c) \/ StopAnnounce(c)
    \/ IngestFind(c) \/ IngestAdd(c) \/ IngestFeed(c)
    \/ IngestWindows(c) \/ IngestForward(c)
    \/ CleanupAnnounce(c) \/ CleanupDrop(c)

Next ==
    \/ \E c \in Controllers : Control(c)
    \/ \E c \in Streams, e \in Exchanges : IngestCheck(c, e)
    \/ \E c \in Cleaners : CleanupRemove(c)
    \/ \E c \in Callers : Continue(c)
    \/ \E d \in Detectors : CheckSilence(d)
    \/ Tick

(* Time passes, and a timer thread gets the lock it waits for; nobody has   *)
(* to call the service, and no call has to go on.                          *)
Fairness ==
    /\ \A d \in Detectors : WF_vars(CheckSilence(d))
    /\ WF_vars(Tick)

Spec == Init /\ [][Next]_vars /\ Fairness

-----------------------------------------------------------------------------
(* Properties                                                              *)

CallerPlaces == {"idle", "buffer", "pause", "resume", "remove", "close",
                 "announce", "find", "add", "feed", "windows",
                 "forward",
                 "expire", "drop"}

(* The registry and the buffer table name sessions, a session its current  *)
(* detector, and a running timer counts down from the threshold.           *)
TypeOK ==
    /\ registry \in [Exchanges -> Sessions \cup {None}]
    /\ buffers \in [Exchanges -> Sessions \cup {None}]
    /\ session \in [Sessions ->
          [made : BOOLEAN, exchange : Exchanges \cup {None}, active : BOOLEAN,
           paused : BOOLEAN, idle : 0 .. Timeout + 1,
           detector : Detectors \cup {None}]]
    /\ detector \in [Detectors ->
          [owner : Sessions \cup {None}, closed : BOOLEAN,
           age : 0 .. Threshold \cup {None}, timer : 1 .. Threshold \cup {None},
           triggered : BOOLEAN]]
    /\ checks \in [Detectors -> Nat]
    /\ content \in [Sessions -> SUBSET Chunks]
    /\ sent \subseteq Chunks
    /\ forwarded \in [Chunks -> Nat]
    /\ ended \in [Sessions -> Nat]
    /\ \A c \in Callers : caller[c].at \in CallerPlaces

(* Nothing is passed on twice.  A stop, another stop and the cleanup of    *)
(* idle sessions may all be after a session, and only who takes it out of  *)
(* the registry announces its end (session_manager.py); a chunk that a     *)
(* full window or the flush of a stop has forwarded to transcription is in *)
(* no buffer any more (buffer_manager.py).                                 *)
AnnouncedAtMostOnce ==
    /\ \A s \in Sessions :
          ended[s] + Cardinality({c \in Callers :
              \/ At(c, "announce") /\ caller[c].session = s
              \/ At(c, "expire") /\ s \in caller[c].gone}) <= 1
    /\ \A k \in Chunks :
          /\ forwarded[k] <= 1
          /\ forwarded[k] = 1 => \A s \in Sessions : k \notin content[s]

(* A detector decides for an evaluation only while it is open, and only    *)
(* after a whole threshold without audio, however late its timer thread    *)
(* comes to the lock (silence_detector.py, the critical invariant).        *)
DecidesOnSilenceOnly ==
    [][\A d \in Detectors :
          detector'[d].triggered /\ ~detector[d].triggered
          => ~detector[d].closed /\ detector[d].age = Threshold]_vars

(* Audio that stops is noticed: a detector that was fed decides, unless it *)
(* is closed.  Replacing its timer at every chunk loses no wake-up.        *)
SilenceIsNoticed ==
    \A d \in Detectors :
        detector[d].timer # None
        ~> detector[d].timer = None /\ (detector[d].triggered
                                        \/ detector[d].closed)
=============================================================================
