------------------------ MODULE AudioIngestionProofs ------------------------
(***************************************************************************)
(* Proofs about audio ingestion, for any number of threads, exchanges,     *)
(* sessions, chunks and ticks: nothing is announced or transcribed twice,  *)
(* and a detector decides on silence only.                                 *)
(***************************************************************************)
EXTENDS AudioIngestion, FiniteSetTheorems, WellFoundedInduction, TLAPS

USE AudioAssumption

-----------------------------------------------------------------------------
(* The inductive invariant.                                                *)

\* The locals of a thread.
Call == [at : CallerPlaces, exchange : Exchanges \cup {None},
         session : Sessions \cup {None}, buffer : Sessions \cup {None},
         chunk : Chunks \cup {None}, gone : SUBSET Sessions]

\* The objects of the registry and of their detectors.
AudioSession == [made : BOOLEAN, exchange : Exchanges \cup {None}, active : BOOLEAN,
                 paused : BOOLEAN, idle : 0 .. Timeout + 1, detector : Detectors \cup {None}]
SilenceDetector == [owner : Sessions \cup {None}, closed : BOOLEAN,
                    age : 0 .. Threshold \cup {None}, timer : 1 .. Threshold \cup {None},
                    triggered : BOOLEAN]

\* What a thread has found before it comes to a place.
Knows(r) ==
    /\ r.at \in {"buffer", "remove", "find"} => r.exchange \in Exchanges
    /\ r.at \in {"buffer", "pause", "resume", "close", "announce", "find"} => r.session \in Sessions
    /\ r.at \in {"add", "windows", "forward"} => r.buffer \in Sessions
    /\ r.at \in {"find", "add"} => r.chunk \in Chunks

CallersInv == caller \in [Callers -> Call] /\ \A c \in Callers : Knows(caller[c])

\* A thread has taken a session out of the registry and not announced its end.
Holds(r, s) ==
    \/ r.at \in {"close", "announce"} /\ r.session = s
    \/ r.at = "expire" /\ s \in r.gone

Ending(c, s) == Holds(caller[c], s)

\* A session is registered under its own exchange; its end is pending with one
\* thread at most, once it is taken out, and is announced after that.
SessionInv(s) ==
    /\ \A e \in Exchanges : registry[e] = s =>
          session[s].made /\ session[s].exchange = e
    /\ s \in Registered => ended[s] = 0 /\ \A c \in Callers : ~Ending(c, s)
    /\ \A c, d \in Callers : Ending(c, s) /\ Ending(d, s) => c = d
    /\ ended[s] <= 1
    /\ (\E c \in Callers : Ending(c, s)) => ended[s] = 0 /\ session[s].made
    /\ ended[s] = 1 => session[s].made

\* A thread has a chunk that it has not put into a buffer.
Carries(r, k) == r.at \in {"find", "add"} /\ r.chunk = k

\* A chunk is in one place: with its thread, in a buffer, or transcribed.
ChunkInv(k) ==
    /\ k \notin sent => forwarded[k] = 0
    /\ \A s \in Sessions : k \in content[s] => k \in sent /\ forwarded[k] = 0
    /\ \A s, t \in Sessions : k \in content[s] /\ k \in content[t] => s = t
    /\ \A c \in Callers : Carries(caller[c], k) =>
          k \in sent /\ forwarded[k] = 0 /\ \A s \in Sessions : k \notin content[s]
    /\ \A c, d \in Callers : Carries(caller[c], k) /\ Carries(caller[d], k) => c = d
    /\ forwarded[k] <= 1

IngestionInv ==
    /\ TypeOK /\ CallersInv
    /\ \A s \in Sessions : SessionInv(s)
    /\ \A k \in Chunks : ChunkInv(k)

-----------------------------------------------------------------------------
(* What a thread does to its own locals.                                   *)

LEMMA IdleCall ==
    Idle \in Call /\ Knows(Idle) /\ (\A s : ~Holds(Idle, s)) /\ (\A k : ~Carries(Idle, k))
BY DEF Idle, Call, Knows, Holds, Carries, CallerPlaces

\* Only the thread c moves.
LEMMA CallerMoves ==
    ASSUME CallersInv, NEW c \in Callers, NEW r \in Call, Knows(r),
           caller' = [caller EXCEPT ![c] = r]
    PROVE  CallersInv' /\ \A d \in Callers : caller'[d] = IF d = c THEN r ELSE caller[d]
BY DEF CallersInv

\* A thread that moves on with its locals.
LEMMA Turned ==
    ASSUME CallersInv, NEW c \in Callers, NEW p \in CallerPlaces, NEW r,
           r = [caller[c] EXCEPT !.at = p]
    PROVE  /\ r \in Call /\ r.at = p
           /\ r.exchange = caller[c].exchange /\ r.session = caller[c].session
           /\ r.buffer = caller[c].buffer /\ r.chunk = caller[c].chunk
           /\ r.gone = caller[c].gone
BY DEF CallersInv, Call

\* The natural numbers are well ordered, so the next object to make is one.
LEMMA NextIsOne ==
    ASSUME NEW S \in SUBSET Nat, S # {}
    PROVE  Next1(S) \in S
<1>1. PICK x \in S : \A y \in S : ~(<<y, x>> \in OpToRel(<, Nat))
  BY NatLessThanWellFounded, WFMin
<1>2. ASSUME NEW y \in S PROVE x <= y
  <2>1. <<y, x>> \in Nat \X Nat /\ <<y, x>>[1] = y /\ <<y, x>>[2] = x
    OBVIOUS
  <2>2. ~(<<y, x>>[1] < <<y, x>>[2])
    BY <1>1, <2>1 DEF OpToRel
  <2> QED BY <2>1, <2>2
<1> QED BY <1>2 DEF Next1

\* What the code writes into a session and a detector keeps their types.
\* b is what has become of the session a.
Becomes(a, b) == b \in AudioSession /\ b.made = a.made /\ b.exchange = a.exchange

LEMMA SessionWrites ==
    ASSUME NEW a \in AudioSession
    PROVE  /\ Becomes(a, [a EXCEPT !.paused = TRUE])
           /\ Becomes(a, [a EXCEPT !.active = FALSE])
           /\ Becomes(a, [a EXCEPT !.idle = 0])
           /\ a.idle <= Timeout => Becomes(a, [a EXCEPT !.idle = @ + 1])
           /\ \A d \in Detectors : Becomes(a, [a EXCEPT !.paused = FALSE, !.detector = d])
<1>1. 0 \in 0 .. Timeout + 1 /\ (a.idle <= Timeout => a.idle + 1 \in 0 .. Timeout + 1)
  BY DEF AudioSession
<1>2. /\ Becomes(a, [a EXCEPT !.paused = TRUE])
      /\ Becomes(a, [a EXCEPT !.active = FALSE])
      /\ \A d \in Detectors : Becomes(a, [a EXCEPT !.paused = FALSE, !.detector = d])
  BY Zenon DEF AudioSession, Becomes
<1>3. \A n \in 0 .. Timeout + 1 : Becomes(a, [a EXCEPT !.idle = n])
  BY Zenon DEF AudioSession, Becomes
<1> QED BY <1>1, <1>2, <1>3

LEMMA DetectorWrites ==
    ASSUME NEW a \in SilenceDetector
    PROVE  /\ \A s \in Sessions : [a EXCEPT !.owner = s] \in SilenceDetector
           /\ Cancelled(a) \in SilenceDetector
           /\ Feed(a) \in SilenceDetector
           /\ [a EXCEPT !.triggered = TRUE] \in SilenceDetector
           /\ \A n \in 0 .. Threshold \cup {None}, m \in 1 .. Threshold \cup {None} :
                 [a EXCEPT !.age = n, !.timer = m] \in SilenceDetector
<1>1. 0 \in 0 .. Threshold \cup {None} /\ Threshold \in 1 .. Threshold \cup {None}
  OBVIOUS
<1>2. Feed(a) \in SilenceDetector
  BY <1>1, Zenon DEF SilenceDetector, Feed
<1> QED BY <1>2, Zenon DEF SilenceDetector, Cancelled

-----------------------------------------------------------------------------
(* What a step leaves alone.                                               *)

\* Sessions stay as they are registered, and no thread takes one out.
LEMMA SessionFrame ==
    ASSUME \A s \in Sessions : SessionInv(s),
           UNCHANGED <<registry, ended>>,
           \A s \in Sessions : /\ session'[s].made = session[s].made
                               /\ session'[s].exchange = session[s].exchange,
           \A c \in Callers : \A s \in Sessions : Holds(caller'[c], s) => Holds(caller[c], s)
    PROVE  \A s \in Sessions : SessionInv(s)'
BY DEF SessionInv, Ending, Registered

\* Chunks stay where they are, and no thread takes another one.
LEMMA ChunkFrame ==
    ASSUME \A k \in Chunks : ChunkInv(k),
           UNCHANGED <<sent, forwarded, content>>,
           \A c \in Callers : \A k \in Chunks : Carries(caller'[c], k) => Carries(caller[c], k)
    PROVE  \A k \in Chunks : ChunkInv(k)'
BY DEF ChunkInv

\* A buffer is emptied into the transcription.
LEMMA FlushMoves ==
    ASSUME TypeOK, \A k \in Chunks : ChunkInv(k), NEW b \in Sessions,
           Flush(b), UNCHANGED sent,
           \A c \in Callers : \A k \in Chunks : Carries(caller'[c], k) => Carries(caller[c], k)
    PROVE  /\ content' \in [Sessions -> SUBSET Chunks] /\ forwarded' \in [Chunks -> Nat]
           /\ \A k \in Chunks : ChunkInv(k)'
<1>1. \A k \in Chunks : forwarded'[k] = forwarded[k] + (IF k \in content[b] THEN 1 ELSE 0)
  BY DEF Flush
<1>2. /\ content' \in [Sessions -> SUBSET Chunks]
      /\ \A s \in Sessions : content'[s] = IF s = b THEN {} ELSE content[s]
  BY DEF Flush, TypeOK
<1>3. forwarded' \in [Chunks -> Nat]
  BY DEF Flush, TypeOK
<1>4. ASSUME NEW k \in Chunks PROVE ChunkInv(k)'
  <2>1. ChunkInv(k) /\ forwarded[k] \in Nat /\ forwarded'[k] \in Nat
    BY <1>3 DEF TypeOK
  <2>2. CASE k \in content[b]
    <3>1. forwarded[k] = 0 /\ forwarded'[k] = 1 /\ k \in sent'
      BY <1>1, <2>1, <2>2 DEF ChunkInv
    <3>2. \A s \in Sessions : k \notin content'[s]
      BY <1>2, <2>1, <2>2 DEF ChunkInv
    <3>3. \A c \in Callers : ~Carries(caller'[c], k)
      BY <2>1, <2>2 DEF ChunkInv
    <3> QED BY <3>1, <3>2, <3>3 DEF ChunkInv
  <2>3. CASE k \notin content[b]
    <3>1. forwarded'[k] = forwarded[k]
      BY <1>1, <2>1, <2>3
    <3>2. \A s \in Sessions : k \in content'[s] <=> k \in content[s]
      BY <1>2, <2>3
    <3> QED BY <2>1, <3>1, <3>2 DEF ChunkInv
  <2> QED BY <2>2, <2>3
<1> QED BY <1>2, <1>3, <1>4

-----------------------------------------------------------------------------
(* One lemma for each step.                                                *)

\* The types of all but the threads.
Tables ==
    /\ registry \in [Exchanges -> Sessions \cup {None}]
    /\ buffers \in [Exchanges -> Sessions \cup {None}]
    /\ session \in [Sessions -> AudioSession]
    /\ detector \in [Detectors -> SilenceDetector]
    /\ checks \in [Detectors -> Nat]
    /\ content \in [Sessions -> SUBSET Chunks]
    /\ sent \subseteq Chunks
    /\ forwarded \in [Chunks -> Nat]
    /\ ended \in [Sessions -> Nat]

LEMMA TypesAreTables ==
    /\ TypeOK => Tables
    /\ Tables' /\ CallersInv' => TypeOK'
BY DEF TypeOK, Tables, CallersInv, Call, AudioSession, SilenceDetector

\* One session is written.
LEMMA SessionWritten ==
    ASSUME Tables, NEW s \in Sessions, NEW b, Becomes(session[s], b),
           session' = [session EXCEPT ![s] = b]
    PROVE  /\ session' \in [Sessions -> AudioSession]
           /\ \A t \in Sessions : /\ session'[t].made = session[t].made
                                  /\ session'[t].exchange = session[t].exchange
<1>1. \A t \in Sessions : session'[t] = IF t = s THEN b ELSE session[t]
  BY DEF Tables
<1>2. session' \in [Sessions -> AudioSession]
  BY DEF Becomes, Tables
<1> QED BY <1>1, <1>2 DEF Becomes

\* A thread moves on, and what the invariant relates stays.
LEMMA QuietMove ==
    ASSUME IngestionInv, Tables', NEW c \in Callers, NEW r \in Call, Knows(r),
           caller' = [caller EXCEPT ![c] = r],
           \A s \in Sessions : Holds(r, s) => Holds(caller[c], s),
           \A k \in Chunks : Carries(r, k) => Carries(caller[c], k),
           UNCHANGED <<registry, ended, sent, forwarded, content>>,
           \A s \in Sessions : /\ session'[s].made = session[s].made
                               /\ session'[s].exchange = session[s].exchange
    PROVE  IngestionInv'
<1>1. CallersInv' /\ \A x \in Callers : caller'[x] = IF x = c THEN r ELSE caller[x]
  BY CallerMoves DEF IngestionInv
<1>2. \A s \in Sessions : SessionInv(s)'
  BY <1>1, SessionFrame DEF IngestionInv
<1>3. \A k \in Chunks : ChunkInv(k)'
  BY <1>1, ChunkFrame DEF IngestionInv
<1> QED BY <1>1, <1>2, <1>3, TypesAreTables DEF IngestionInv

\* Nobody moves.
LEMMA QuietTime ==
    ASSUME IngestionInv, Tables',
           UNCHANGED <<registry, ended, sent, forwarded, content, caller>>,
           \A s \in Sessions : /\ session'[s].made = session[s].made
                               /\ session'[s].exchange = session[s].exchange
    PROVE  IngestionInv'
<1>1. CallersInv'
  BY DEF IngestionInv, CallersInv
<1>2. \A s \in Sessions : SessionInv(s)'
  BY SessionFrame DEF IngestionInv
<1>3. \A k \in Chunks : ChunkInv(k)'
  BY ChunkFrame DEF IngestionInv
<1> QED BY <1>1, <1>2, <1>3, TypesAreTables DEF IngestionInv

LEMMA InitialState == Init => IngestionInv
<1> SUFFICES ASSUME Init PROVE IngestionInv
  OBVIOUS
<1>1. \A c \in Callers : caller[c] = Idle
  BY DEF Init
<1>2. CallersInv
  BY <1>1, IdleCall DEF CallersInv, Init
<1>3. TypeOK
  BY <1>1 DEF Init, TypeOK, NoSession, NoDetector, CallerPlaces, Idle
<1>4. \A s \in Sessions : SessionInv(s)
  BY <1>1, IdleCall DEF Init, SessionInv, Ending, Registered
<1>5. \A k \in Chunks : ChunkInv(k)
  BY <1>1, IdleCall DEF Init, ChunkInv
<1> QED BY <1>2, <1>3, <1>4, <1>5 DEF IngestionInv

LEMMA StartKeeps ==
    ASSUME IngestionInv, NEW c \in Callers, NEW e \in Exchanges, StartSession(c, e)
    PROVE  IngestionInv'
<1> DEFINE s == Next1(Unmade(session, NoSession))
           d == Next1(Unmade(detector, NoDetector))
           row == [NoSession EXCEPT !.made = TRUE, !.exchange = e,
                                    !.active = TRUE, !.detector = d]
           r == [Idle EXCEPT !.at = "buffer", !.exchange = e, !.session = s]
<1>1. s \in Sessions /\ session[s] = NoSession /\ d \in Detectors
  <2>1. s \in Unmade(session, NoSession) /\ d \in Unmade(detector, NoDetector)
    BY NextIsOne DEF Unmade, StartSession, IngestionInv, TypeOK
  <2> QED BY <2>1 DEF Unmade, IngestionInv, TypeOK
<1>2. /\ session' = [session EXCEPT ![s] = row]
      /\ detector' = [detector EXCEPT ![d].owner = s]
      /\ registry' = [registry EXCEPT ![e] = s]
      /\ caller' = [caller EXCEPT ![c] = r]
      /\ registry[e] = None
      /\ UNCHANGED <<buffers, checks, content, sent, forwarded, ended>>
  BY DEF StartSession
<1>3. row \in AudioSession /\ row.made /\ row.exchange = e
  <2>1. 0 \in 0 .. Timeout + 1
    OBVIOUS
  <2>2. NoSession \in AudioSession
    BY <2>1, Zenon DEF NoSession, AudioSession
  <2>3. \A a \in AudioSession : \A x \in Exchanges, y \in Detectors :
          LET b == [a EXCEPT !.made = TRUE, !.exchange = x, !.active = TRUE, !.detector = y]
          IN  b \in AudioSession /\ b.made /\ b.exchange = x
    BY Zenon DEF AudioSession
  <2> QED BY <1>1, <2>2, <2>3, Zenon
<1>4. /\ r \in Call /\ Knows(r)
      /\ \A t : ~Holds(r, t)
      /\ \A k : ~Carries(r, k)
  BY <1>1, IdleCall DEF Idle, Call, Knows, Holds, Carries, CallerPlaces
<1> HIDE DEF s, d, row, r
<1>5. CallersInv' /\ \A x \in Callers : caller'[x] = IF x = c THEN r ELSE caller[x]
  BY <1>2, <1>4, CallerMoves DEF IngestionInv
<1>6. TypeOK'
  <2>1. session' \in [Sessions -> AudioSession]
    BY <1>1, <1>2, <1>3 DEF TypeOK, IngestionInv, AudioSession
  <2>2. detector' \in [Detectors -> SilenceDetector]
    <3>1. [detector[d] EXCEPT !.owner = s] \in SilenceDetector
      <4>1. detector[d] \in SilenceDetector
        BY <1>1 DEF TypeOK, IngestionInv, SilenceDetector
      <4> QED BY <1>1, <4>1, DetectorWrites
    <3> QED BY <1>1, <1>2, <3>1 DEF TypeOK, IngestionInv, SilenceDetector
  <2>3. registry' \in [Exchanges -> Sessions \cup {None}]
    BY <1>1, <1>2 DEF TypeOK, IngestionInv
  <2> QED BY <1>2, <1>5, <2>1, <2>2, <2>3 DEF TypeOK, IngestionInv, CallersInv, Call,
                AudioSession, SilenceDetector
<1>7. ASSUME NEW t \in Sessions PROVE SessionInv(t)'
  <2>1. \A x \in Callers : Holds(caller'[x], t) => Holds(caller[x], t)
    BY <1>4, <1>5
  <2>2. CASE t = s
    <3>1. ~session[t].made
      BY <1>1, <2>2 DEF NoSession
    <3>2. /\ \A x \in Callers : ~Holds(caller[x], t)
          /\ ended[t] = 0
          /\ \A x \in Exchanges : registry[x] # t
      <4>1. SessionInv(t) /\ ended[t] \in Nat
        BY DEF IngestionInv, TypeOK
      <4> QED BY <3>1, <4>1 DEF SessionInv, Ending
    <3>3. session'[t].made /\ session'[t].exchange = e
      BY <1>1, <1>2, <1>3, <2>2 DEF IngestionInv, TypeOK
    <3>4. \A x \in Exchanges : registry'[x] = t => x = e
      BY <1>2, <3>2 DEF IngestionInv, TypeOK
    <3> QED BY <1>2, <2>1, <3>2, <3>3, <3>4 DEF SessionInv, Ending
  <2>3. CASE t # s
    <3>1. session'[t] = session[t] /\ ended' = ended
      BY <1>2, <2>3 DEF IngestionInv, TypeOK
    <3>2. \A x \in Exchanges : registry'[x] = t => registry[x] = t
      BY <1>2, <2>3 DEF IngestionInv, TypeOK
    <3> QED BY <2>1, <3>1, <3>2 DEF IngestionInv, SessionInv, Ending, Registered
  <2> QED BY <2>2, <2>3
<1>8. \A k \in Chunks : ChunkInv(k)'
  BY <1>2, <1>4, <1>5, ChunkFrame DEF IngestionInv
<1> QED BY <1>5, <1>6, <1>7, <1>8 DEF IngestionInv

LEMMA CreateBufferKeeps ==
    ASSUME IngestionInv, NEW c \in Callers, CreateBuffer(c)
    PROVE  IngestionInv'
<1>1. caller[c].session \in Sessions
  BY DEF CreateBuffer, At, IngestionInv, CallersInv, Knows
<1>2. Tables'
  BY <1>1, TypesAreTables DEF CreateBuffer, Tables, IngestionInv
<1> QED BY <1>2, IdleCall, QuietMove DEF CreateBuffer, Done

LEMMA GetKeeps ==
    ASSUME IngestionInv, NEW c \in Callers, NEW e \in Exchanges, NEW op \in {"pause", "resume"},
           GetSession(c, e, op)
    PROVE  IngestionInv'
<1> DEFINE r == [Idle EXCEPT !.at = op, !.exchange = e, !.session = registry[e]]
<1>1. registry[e] \in Sessions
  BY DEF GetSession, IngestionInv, TypeOK
<1>2. r \in Call /\ Knows(r) /\ (\A s : ~Holds(r, s)) /\ (\A k : ~Carries(r, k))
  BY <1>1 DEF Idle, Call, Knows, Holds, Carries, CallerPlaces
<1>3. caller' = [caller EXCEPT ![c] = r]
  BY DEF GetSession
<1> HIDE DEF r
<1>4. Tables'
  BY TypesAreTables DEF GetSession, Tables, IngestionInv
<1> QED BY <1>2, <1>3, <1>4, QuietMove DEF GetSession

LEMMA PauseKeeps ==
    ASSUME IngestionInv, NEW c \in Callers, PauseSession(c)
    PROVE  IngestionInv'
<1> DEFINE s == caller[c].session
           d == session[s].detector
<1>1. s \in Sessions
  BY DEF PauseSession, At, IngestionInv, CallersInv, Knows
<1>2. /\ session' = [session EXCEPT ![s].paused = TRUE]
      /\ detector' = [detector EXCEPT ![d] = Cancelled(@)]
      /\ Done(c) /\ UNCHANGED <<registry, buffers, checks, content, sent, forwarded, ended>>
  BY DEF PauseSession
<1>3. Tables
  BY TypesAreTables DEF IngestionInv
<1> HIDE DEF s, d
<1>4. /\ session' \in [Sessions -> AudioSession]
      /\ \A t \in Sessions : /\ session'[t].made = session[t].made
                             /\ session'[t].exchange = session[t].exchange
  <2>1. Becomes(session[s], [session[s] EXCEPT !.paused = TRUE])
    BY <1>1, <1>3, SessionWrites DEF Tables
  <2> QED BY <1>1, <1>2, <1>3, <2>1, SessionWritten
<1>5. detector' \in [Detectors -> SilenceDetector]
  BY <1>2, <1>3, DetectorWrites DEF Tables
<1>6. Tables'
  BY <1>2, <1>3, <1>4, <1>5 DEF Tables
<1> QED BY <1>2, <1>4, <1>6, IdleCall, QuietMove DEF Done

LEMMA ResumeKeeps ==
    ASSUME IngestionInv, NEW c \in Callers, ResumeSession(c)
    PROVE  IngestionInv'
<1> DEFINE s == caller[c].session
           d == Next1(Unmade(detector, NoDetector))
<1>1. s \in Sessions
  BY DEF ResumeSession, At, IngestionInv, CallersInv, Knows
<1>2. d \in Detectors
  <2>1. d \in Unmade(detector, NoDetector)
    BY NextIsOne DEF Unmade, ResumeSession, IngestionInv, TypeOK
  <2> QED BY <2>1 DEF Unmade, IngestionInv, TypeOK
<1>3. /\ session' = [session EXCEPT ![s] = [session[s] EXCEPT !.paused = FALSE, !.detector = d]]
      /\ detector' = [detector EXCEPT ![d].owner = s]
      /\ Done(c) /\ UNCHANGED <<registry, buffers, checks, content, sent, forwarded, ended>>
  BY DEF ResumeSession
<1>4. Tables
  BY TypesAreTables DEF IngestionInv
<1> HIDE DEF s, d
<1>5. /\ session' \in [Sessions -> AudioSession]
      /\ \A t \in Sessions : /\ session'[t].made = session[t].made
                             /\ session'[t].exchange = session[t].exchange
  <2>1. Becomes(session[s], [session[s] EXCEPT !.paused = FALSE, !.detector = d])
    BY <1>1, <1>2, <1>4, SessionWrites DEF Tables
  <2> QED BY <1>1, <1>3, <1>4, <2>1, SessionWritten
<1>6. detector' \in [Detectors -> SilenceDetector]
  BY <1>1, <1>3, <1>4, DetectorWrites DEF Tables
<1>7. Tables'
  BY <1>3, <1>4, <1>5, <1>6 DEF Tables
<1> QED BY <1>3, <1>5, <1>7, IdleCall, QuietMove DEF Done

LEMMA StopFlushKeeps ==
    ASSUME IngestionInv, NEW c \in Callers, NEW e \in Exchanges, StopFlush(c, e)
    PROVE  IngestionInv'
<1> DEFINE r == [Idle EXCEPT !.at = "remove", !.exchange = e]
<1>1. r \in Call /\ Knows(r) /\ (\A s : ~Holds(r, s)) /\ (\A k : ~Carries(r, k))
  BY DEF Idle, Call, Knows, Holds, Carries, CallerPlaces
<1>2. /\ caller' = [caller EXCEPT ![c] = r] /\ buffers' = [buffers EXCEPT ![e] = None]
      /\ UNCHANGED <<registry, session, detector, checks, sent, ended>>
  BY DEF StopFlush
<1> HIDE DEF r
<1>3. CASE buffers[e] # None
  <2>1. Flush(buffers[e]) /\ buffers[e] \in Sessions
    BY <1>3 DEF StopFlush, IngestionInv, TypeOK
  <2>2. CallersInv' /\ \A x \in Callers : caller'[x] = IF x = c THEN r ELSE caller[x]
    BY <1>1, <1>2, CallerMoves DEF IngestionInv
  <2>3. \A x \in Callers : \A k \in Chunks : Carries(caller'[x], k) => Carries(caller[x], k)
    BY <1>1, <2>2
  <2>4. /\ content' \in [Sessions -> SUBSET Chunks] /\ forwarded' \in [Chunks -> Nat]
        /\ \A k \in Chunks : ChunkInv(k)'
    BY <1>2, <2>1, <2>3, FlushMoves DEF IngestionInv
  <2>5. \A s \in Sessions : SessionInv(s)'
    BY <1>1, <1>2, <2>2, SessionFrame DEF IngestionInv
  <2>6. Tables'
    BY <1>2, <2>4, TypesAreTables DEF Tables, IngestionInv
  <2> QED BY <2>2, <2>4, <2>5, <2>6, TypesAreTables DEF IngestionInv
<1>4. CASE buffers[e] = None
  <2>1. UNCHANGED <<forwarded, content>>
    BY <1>4 DEF StopFlush
  <2>2. Tables'
    BY <1>2, <2>1, TypesAreTables DEF Tables, IngestionInv
  <2> QED BY <1>1, <1>2, <2>1, <2>2, QuietMove
<1> QED BY <1>3, <1>4

LEMMA StopRemoveKeeps ==
    ASSUME IngestionInv, NEW c \in Callers, StopRemove(c)
    PROVE  IngestionInv'
<1> DEFINE e == caller[c].exchange
           s == registry[e]
<1>1. e \in Exchanges /\ caller[c].at = "remove"
  BY DEF StopRemove, At, IngestionInv, CallersInv, Knows
<1>2. /\ registry' = [registry EXCEPT ![e] = None]
      /\ UNCHANGED <<buffers, session, detector, checks, content, sent, forwarded, ended>>
  BY DEF StopRemove
<1>3. Tables /\ Tables'
  BY <1>2, TypesAreTables DEF Tables, IngestionInv
<1>4. CASE s = None
  <2>1. registry' = registry /\ Done(c)
    BY <1>1, <1>2, <1>3, <1>4 DEF StopRemove, Tables
  <2> QED BY <1>2, <1>3, <2>1, IdleCall, QuietMove DEF Done
<1>5. CASE s # None
  <2>0. s \in Sessions
    BY <1>1, <1>3, <1>5 DEF Tables
  <2>1. PICK r : r = [caller[c] EXCEPT !.at = "close", !.session = s]
    OBVIOUS
  <2>2. caller' = [caller EXCEPT ![c] = r]
    BY <1>5, <2>1 DEF StopRemove
  <2>3. r \in Call /\ r.at = "close" /\ r.session = s
    BY <2>0, <2>1 DEF IngestionInv, CallersInv, Call, CallerPlaces
  <2> HIDE DEF s, e
  <2>4. Knows(r) /\ (\A k : ~Carries(r, k)) /\ (\A t : Holds(r, t) <=> t = s)
    BY <2>0, <2>3 DEF Knows, Carries, Holds
  <2>5. CallersInv' /\ \A x \in Callers : caller'[x] = IF x = c THEN r ELSE caller[x]
    BY <2>2, <2>3, <2>4, CallerMoves DEF IngestionInv
  <2>6. \A k \in Chunks : ChunkInv(k)'
    BY <1>2, <2>4, <2>5, ChunkFrame DEF IngestionInv
  <2>7. \A x \in Exchanges : \A t \in Sessions : registry'[x] = t => x # e /\ registry[x] = t
    BY <1>1, <1>2, <1>3, <2>0 DEF Tables
  <2>8. ASSUME NEW t \in Sessions PROVE SessionInv(t)'
    <3>1. CASE t = s
      <4>1. registry[e] = t
        BY <3>1 DEF s
      <4>2. /\ ended[t] = 0 /\ session[t].made /\ session[t].exchange = e
            /\ \A x \in Callers : ~Holds(caller[x], t)
        BY <1>1, <4>1 DEF IngestionInv, SessionInv, Registered, Ending
      <4>3. \A x \in Exchanges : registry'[x] # t
        BY <2>7, <4>2 DEF IngestionInv, SessionInv
      <4>4. \A x \in Callers : Holds(caller'[x], t) => x = c
        BY <2>5, <4>2
      <4>5. t \notin Registered'
        BY <4>3 DEF Registered
      <4> QED BY <1>2, <4>2, <4>3, <4>4, <4>5 DEF SessionInv, Ending
    <3>2. CASE t # s
      <4>1. \A x \in Callers : Holds(caller'[x], t) => Holds(caller[x], t)
        BY <2>4, <2>5, <3>2
      <4>2. t \in Registered' => t \in Registered
        BY <2>7 DEF Registered
      <4> QED BY <1>2, <2>7, <4>1, <4>2 DEF IngestionInv, SessionInv, Ending
    <3> QED BY <3>1, <3>2
  <2> QED BY <1>3, <2>5, <2>6, <2>8, TypesAreTables DEF IngestionInv
<1> QED BY <1>4, <1>5

LEMMA StopCloseKeeps ==
    ASSUME IngestionInv, NEW c \in Callers, StopClose(c)
    PROVE  IngestionInv'
<1> DEFINE s == caller[c].session
           d == session[s].detector
<1>1. s \in Sessions /\ caller[c].at = "close"
  BY DEF StopClose, At, IngestionInv, CallersInv, Knows
<1>2. /\ session' = [session EXCEPT ![s] = [session[s] EXCEPT !.active = FALSE]]
      /\ UNCHANGED <<registry, buffers, checks, content, sent, forwarded, ended>>
  BY DEF StopClose
<1>3. \/ UNCHANGED detector /\ Done(c)
      \/ detector' = [detector EXCEPT ![d] = Cancelled(@)] /\ Goto(c, "announce")
  BY DEF StopClose
<1>4. Tables
  BY TypesAreTables DEF IngestionInv
<1> HIDE DEF d
<1>5. /\ session' \in [Sessions -> AudioSession]
      /\ \A t \in Sessions : /\ session'[t].made = session[t].made
                             /\ session'[t].exchange = session[t].exchange
  <2>1. Becomes(session[s], [session[s] EXCEPT !.active = FALSE])
    BY <1>1, <1>4, SessionWrites DEF Tables
  <2> QED BY <1>1, <1>2, <1>4, <2>1, SessionWritten
<1>6. detector' \in [Detectors -> SilenceDetector]
  <2>1. \A x \in Detectors : Cancelled(detector[x]) \in SilenceDetector
    BY <1>4, DetectorWrites DEF Tables
  <2>2. CASE detector' = [detector EXCEPT ![d] = Cancelled(@)]
    BY <1>4, <2>1, <2>2 DEF Tables
  <2>3. CASE UNCHANGED detector
    BY <1>4, <2>3 DEF Tables
  <2> QED BY <1>3, <2>2, <2>3
<1>7. Tables'
  BY <1>2, <1>4, <1>5, <1>6 DEF Tables
<1>8. CASE Done(c)
  BY <1>2, <1>5, <1>7, <1>8, IdleCall, QuietMove DEF Done
<1>9. CASE Goto(c, "announce")
  <2>1. PICK r : r = [caller[c] EXCEPT !.at = "announce"]
    OBVIOUS
  <2>2. caller' = [caller EXCEPT ![c] = r]
    BY <1>9, <2>1 DEF Goto
  <2>3. r \in Call /\ r.at = "announce" /\ r.session = s
    BY <2>1, Turned DEF IngestionInv, CallerPlaces
  <2>4. Knows(r) /\ (\A k : ~Carries(r, k)) /\ (\A t : Holds(r, t) => Holds(caller[c], t))
    BY <1>1, <2>3 DEF Knows, Carries, Holds
  <2> QED BY <1>2, <1>5, <1>7, <2>2, <2>3, <2>4, QuietMove
<1> QED BY <1>3, <1>8, <1>9

LEMMA StopAnnounceKeeps ==
    ASSUME IngestionInv, NEW c \in Callers, StopAnnounce(c)
    PROVE  IngestionInv'
<1> DEFINE s == caller[c].session
<1>1. s \in Sessions /\ Holds(caller[c], s)
  BY DEF StopAnnounce, At, IngestionInv, CallersInv, Knows, Holds
<1>2. /\ ended' = [ended EXCEPT ![s] = @ + 1] /\ caller' = [caller EXCEPT ![c] = Idle]
      /\ UNCHANGED <<registry, buffers, session, detector, checks, content, sent, forwarded>>
  BY DEF StopAnnounce, Done
<1>3. Tables
  BY TypesAreTables DEF IngestionInv
<1> HIDE DEF s
<1>4. Tables' /\ \A t \in Sessions : ended'[t] = IF t = s THEN ended[t] + 1 ELSE ended[t]
  BY <1>1, <1>2, <1>3 DEF Tables
<1>5. CallersInv' /\ \A x \in Callers : caller'[x] = IF x = c THEN Idle ELSE caller[x]
  BY <1>2, IdleCall, CallerMoves DEF IngestionInv
<1>6. \A k \in Chunks : ChunkInv(k)'
  BY <1>2, <1>5, IdleCall, ChunkFrame DEF IngestionInv
<1>7. ASSUME NEW t \in Sessions PROVE SessionInv(t)'
  <2>1. \A x \in Callers : Holds(caller'[x], t) => x # c /\ Holds(caller[x], t)
    BY <1>5, IdleCall
  <2>2. CASE t = s
    <3>1. ended[t] = 0 /\ session[t].made /\ t \notin Registered
      BY <1>1, <2>2 DEF IngestionInv, SessionInv, Ending
    <3>2. \A x \in Callers : ~Holds(caller'[x], t)
      BY <1>1, <2>1, <2>2 DEF IngestionInv, SessionInv, Ending
    <3>3. ended'[t] = 1
      BY <1>4, <2>2, <3>1
    <3>4. \A x \in Exchanges : registry'[x] = t => session'[t].made /\ session'[t].exchange = x
      BY <1>2 DEF IngestionInv, SessionInv
    <3> QED BY <1>2, <3>1, <3>2, <3>3, <3>4 DEF SessionInv, Ending, Registered
  <2>3. CASE t # s
    <3>1. ended'[t] = ended[t]
      BY <1>4, <2>3
    <3> QED BY <1>2, <2>1, <3>1 DEF IngestionInv, SessionInv, Ending, Registered
  <2> QED BY <2>2, <2>3
<1> QED BY <1>4, <1>5, <1>6, <1>7, TypesAreTables DEF IngestionInv

LEMMA IngestCheckKeeps ==
    ASSUME IngestionInv, NEW c \in Callers, NEW e \in Exchanges, IngestCheck(c, e)
    PROVE  IngestionInv'
<1>1. PICK k \in Chunks \ sent :
        /\ sent' = sent \cup {k}
        /\ caller' = [caller EXCEPT ![c] = [Idle EXCEPT !.at = "find", !.exchange = e,
                                          !.session = registry[e], !.chunk = k]]
  BY DEF IngestCheck
<1> DEFINE r == [Idle EXCEPT !.at = "find", !.exchange = e,
                             !.session = registry[e], !.chunk = k]
<1>2. registry[e] \in Sessions
  BY DEF IngestCheck, IngestionInv, TypeOK
<1>3. r \in Call /\ r.at = "find" /\ Knows(r) /\ (\A s : ~Holds(r, s))
      /\ (\A j : Carries(r, j) <=> j = k)
  BY <1>2 DEF Idle, Call, Knows, Holds, Carries, CallerPlaces
<1>4. caller' = [caller EXCEPT ![c] = r]
  BY <1>1
<1>5. UNCHANGED <<registry, buffers, session, detector, checks, content, forwarded, ended>>
  BY DEF IngestCheck
<1> HIDE DEF r
<1>6. CallersInv' /\ \A x \in Callers : caller'[x] = IF x = c THEN r ELSE caller[x]
  BY <1>3, <1>4, CallerMoves DEF IngestionInv
<1>7. Tables'
  BY <1>1, <1>5, TypesAreTables DEF Tables, IngestionInv
<1>8. \A s \in Sessions : SessionInv(s)'
  BY <1>3, <1>5, <1>6, SessionFrame DEF IngestionInv
<1>9. ASSUME NEW j \in Chunks PROVE ChunkInv(j)'
  <2>1. CASE j = k
    <3>1. /\ forwarded[j] = 0 /\ \A s \in Sessions : j \notin content[s]
          /\ \A x \in Callers : ~Carries(caller[x], j)
      BY <1>1, <2>1 DEF IngestionInv, ChunkInv
    <3>2. \A x \in Callers : Carries(caller'[x], j) => x = c
      BY <1>6, <3>1
    <3>3. j \in sent'
      BY <1>1, <2>1
    <3> QED BY <1>5, <3>1, <3>2, <3>3 DEF ChunkInv
  <2>2. CASE j # k
    <3>1. \A x \in Callers : Carries(caller'[x], j) => Carries(caller[x], j)
      BY <1>3, <1>6, <2>2
    <3>2. j \in sent' <=> j \in sent
      BY <1>1, <2>2
    <3> QED BY <1>5, <3>1, <3>2 DEF IngestionInv, ChunkInv
  <2> QED BY <2>1, <2>2
<1> QED BY <1>6, <1>7, <1>8, <1>9, TypesAreTables DEF IngestionInv

LEMMA IngestFindKeeps ==
    ASSUME IngestionInv, NEW c \in Callers, IngestFind(c)
    PROVE  IngestionInv'
<1> DEFINE b == buffers[caller[c].exchange]
           p == IF b = None THEN "feed" ELSE "add"
<1>1. caller[c].at = "find" /\ b \in Sessions \cup {None} /\ caller[c].chunk \in Chunks
  BY DEF IngestFind, At, IngestionInv, CallersInv, Knows, TypeOK
<1>2. PICK r : r = [caller[c] EXCEPT !.at = p, !.buffer = b]
  OBVIOUS
<1>3. caller' = [caller EXCEPT ![c] = r]
  BY <1>2 DEF IngestFind
<1>4. r \in Call /\ r.at = p /\ r.buffer = b /\ r.chunk = caller[c].chunk
  BY <1>1, <1>2 DEF IngestionInv, CallersInv, Call, CallerPlaces
<1> HIDE DEF b
<1>5. Knows(r) /\ (\A s : ~Holds(r, s)) /\ (\A k : Carries(r, k) => Carries(caller[c], k))
  BY <1>1, <1>4 DEF Knows, Holds, Carries
<1>6. Tables'
  BY TypesAreTables DEF IngestFind, Tables, IngestionInv
<1> QED BY <1>3, <1>4, <1>5, <1>6, QuietMove DEF IngestFind

LEMMA IngestAddKeeps ==
    ASSUME IngestionInv, NEW c \in Callers, IngestAdd(c)
    PROVE  IngestionInv'
<1> DEFINE b == caller[c].buffer
           k == caller[c].chunk
<1>1. b \in Sessions /\ k \in Chunks /\ Carries(caller[c], k)
  BY DEF IngestAdd, At, IngestionInv, CallersInv, Knows, Carries
<1>2. /\ content' = [content EXCEPT ![b] = Evict(@ \cup {k})]
      /\ UNCHANGED <<registry, buffers, session, detector, checks, sent, forwarded, ended>>
  BY DEF IngestAdd
<1>3. PICK r : r = [caller[c] EXCEPT !.at = "feed"]
  OBVIOUS
<1>4. caller' = [caller EXCEPT ![c] = r]
  BY <1>3 DEF IngestAdd, Goto
<1>5. r \in Call /\ r.at = "feed"
  BY <1>3, Turned DEF IngestionInv, CallerPlaces
<1>6. Knows(r) /\ (\A s : ~Holds(r, s)) /\ (\A j : ~Carries(r, j))
  BY <1>5 DEF Knows, Holds, Carries
<1>7. CallersInv' /\ \A x \in Callers : caller'[x] = IF x = c THEN r ELSE caller[x]
  BY <1>4, <1>5, <1>6, CallerMoves DEF IngestionInv
<1>8. Tables /\ ChunkInv(k)
  BY <1>1, TypesAreTables DEF IngestionInv
<1> HIDE DEF b, k
<1>9. \A s \in Sessions : content'[s] \subseteq (IF s = b THEN content[s] \cup {k} ELSE content[s])
  BY <1>1, <1>2, <1>8 DEF Tables, Evict
<1>10. Tables'
  <2>1. Evict(content[b] \cup {k}) \subseteq Chunks
    BY <1>1, <1>8 DEF Tables, Evict
  <2> QED BY <1>1, <1>2, <1>8, <2>1 DEF Tables
<1>11. \A s \in Sessions : SessionInv(s)'
  BY <1>2, <1>6, <1>7, SessionFrame DEF IngestionInv
<1>12. ASSUME NEW j \in Chunks PROVE ChunkInv(j)'
  <2>1. CASE j = k
    <3>1. /\ j \in sent /\ forwarded[j] = 0 /\ \A s \in Sessions : j \notin content[s]
          /\ \A x \in Callers : ~Carries(caller'[x], j)
      BY <1>1, <1>6, <1>7, <1>8, <2>1 DEF ChunkInv
    <3>2. \A s \in Sessions : j \in content'[s] => s = b
      BY <1>9, <3>1
    <3> QED BY <1>2, <3>1, <3>2 DEF ChunkInv
  <2>2. CASE j # k
    <3>1. \A s \in Sessions : j \in content'[s] => j \in content[s]
      BY <1>9, <2>2
    <3>2. \A x \in Callers : Carries(caller'[x], j) => Carries(caller[x], j)
      BY <1>6, <1>7
    <3> QED BY <1>2, <3>1, <3>2 DEF IngestionInv, ChunkInv
  <2> QED BY <2>1, <2>2
<1> QED BY <1>7, <1>10, <1>11, <1>12, TypesAreTables DEF IngestionInv

LEMMA IngestFeedKeeps ==
    ASSUME IngestionInv, NEW c \in Callers, IngestFeed(c)
    PROVE  IngestionInv'
<1> DEFINE s == caller[c].session
           d == session[s].detector
<1>1. /\ session' = [session EXCEPT ![s].idle = 0]
      /\ detector' = [detector EXCEPT ![d] = IF @.closed THEN @ ELSE Feed(@)]
      /\ UNCHANGED <<registry, buffers, checks, content, sent, forwarded, ended>>
      /\ Done(c) \/ (caller[c].buffer # None /\ Goto(c, "windows"))
  BY DEF IngestFeed
<1>2. Tables /\ caller[c].buffer \in Sessions \cup {None}
  BY TypesAreTables DEF IngestionInv, CallersInv, Call
<1> HIDE DEF s, d
<1>3. /\ session' \in [Sessions -> AudioSession]
      /\ \A t \in Sessions : /\ session'[t].made = session[t].made
                             /\ session'[t].exchange = session[t].exchange
  <2>1. CASE s \in Sessions
    <3>1. Becomes(session[s], [session[s] EXCEPT !.idle = 0])
      BY <1>2, <2>1, SessionWrites DEF Tables
    <3> QED BY <1>1, <1>2, <2>1, <3>1, SessionWritten
  <2>2. CASE s \notin Sessions
    <3>1. session' = session
      BY <1>1, <1>2, <2>2 DEF Tables
    <3> QED BY <1>2, <3>1 DEF Tables
  <2> QED BY <2>1, <2>2
<1>4. detector' \in [Detectors -> SilenceDetector]
  <2>1. \A x \in Detectors : Feed(detector[x]) \in SilenceDetector
    BY <1>2, DetectorWrites DEF Tables
  <2> QED BY <1>1, <1>2, <2>1 DEF Tables
<1>5. Tables'
  BY <1>1, <1>2, <1>3, <1>4 DEF Tables
<1>6. CASE Done(c)
  BY <1>1, <1>3, <1>5, <1>6, IdleCall, QuietMove DEF Done
<1>7. CASE caller[c].buffer # None /\ Goto(c, "windows")
  <2>1. PICK r : r = [caller[c] EXCEPT !.at = "windows"]
    OBVIOUS
  <2>2. caller' = [caller EXCEPT ![c] = r]
    BY <1>7, <2>1 DEF Goto
  <2>3. r \in Call /\ r.at = "windows" /\ r.buffer \in Sessions
    BY <1>2, <1>7, <2>1, Turned DEF IngestionInv, CallerPlaces
  <2>4. Knows(r) /\ (\A k : ~Carries(r, k)) /\ (\A t : ~Holds(r, t))
    BY <2>3 DEF Knows, Carries, Holds
  <2> QED BY <1>1, <1>3, <1>5, <2>2, <2>3, <2>4, QuietMove
<1> QED BY <1>1, <1>6, <1>7

LEMMA IngestWindowsKeeps ==
    ASSUME IngestionInv, NEW c \in Callers, IngestWindows(c)
    PROVE  IngestionInv'
<1>1. caller[c].buffer \in Sessions
  BY DEF IngestWindows, At, IngestionInv, CallersInv, Knows
<1>2. Tables'
  BY TypesAreTables DEF IngestWindows, Tables, IngestionInv
<1>3. CASE Done(c)
  BY <1>2, <1>3, IdleCall, QuietMove DEF Done, IngestWindows
<1>4. CASE Goto(c, "forward")
  <2>1. PICK r : r = [caller[c] EXCEPT !.at = "forward"]
    OBVIOUS
  <2>2. caller' = [caller EXCEPT ![c] = r]
    BY <1>4, <2>1 DEF Goto
  <2>3. r \in Call /\ r.at = "forward" /\ r.buffer \in Sessions
    BY <1>1, <2>1, Turned DEF IngestionInv, CallerPlaces
  <2>4. Knows(r) /\ (\A k : ~Carries(r, k)) /\ (\A t : ~Holds(r, t))
    BY <2>3 DEF Knows, Carries, Holds
  <2> QED BY <1>2, <2>2, <2>3, <2>4, QuietMove DEF IngestWindows
<1> QED BY <1>3, <1>4 DEF IngestWindows

LEMMA IngestForwardKeeps ==
    ASSUME IngestionInv, NEW c \in Callers, IngestForward(c)
    PROVE  IngestionInv'
<1> DEFINE b == caller[c].buffer
<1>1. b \in Sessions /\ Flush(b) /\ caller' = [caller EXCEPT ![c] = Idle]
      /\ UNCHANGED <<registry, buffers, session, detector, checks, sent, ended>>
  BY DEF IngestForward, At, Done, IngestionInv, CallersInv, Knows
<1> HIDE DEF b
<1>2. CallersInv' /\ \A x \in Callers : caller'[x] = IF x = c THEN Idle ELSE caller[x]
  BY <1>1, IdleCall, CallerMoves DEF IngestionInv
<1>3. /\ content' \in [Sessions -> SUBSET Chunks] /\ forwarded' \in [Chunks -> Nat]
      /\ \A k \in Chunks : ChunkInv(k)'
  <2>1. \A x \in Callers : \A k \in Chunks : Carries(caller'[x], k) => Carries(caller[x], k)
    BY <1>2, IdleCall
  <2> QED BY <1>1, <2>1, FlushMoves DEF IngestionInv
<1>4. \A s \in Sessions : SessionInv(s)'
  BY <1>1, <1>2, IdleCall, SessionFrame DEF IngestionInv
<1>5. Tables'
  BY <1>1, <1>3, TypesAreTables DEF Tables, IngestionInv
<1> QED BY <1>2, <1>3, <1>4, <1>5, TypesAreTables DEF IngestionInv

LEMMA CleanupRemoveKeeps ==
    ASSUME IngestionInv, NEW c \in Callers, CleanupRemove(c)
    PROVE  IngestionInv'
<1> DEFINE gone == {registry[e] : e \in TimedOut}
           r == [Idle EXCEPT !.at = "expire", !.gone = gone]
<1>1. /\ registry' = [e \in Exchanges |-> IF e \in TimedOut THEN None ELSE registry[e]]
      /\ caller' = [caller EXCEPT ![c] = r]
      /\ UNCHANGED <<buffers, session, detector, checks, content, sent, forwarded, ended>>
  BY DEF CleanupRemove
<1>2. Tables
  BY TypesAreTables DEF IngestionInv
<1>3. TimedOut \subseteq Exchanges /\ \A e \in TimedOut : registry[e] \in Sessions
  BY <1>2 DEF TimedOut, Tables
<1>4. gone \in SUBSET Sessions
  BY <1>3
<1>5. \A t \in Sessions : t \in gone => t \in Registered /\ \E e \in TimedOut : registry[e] = t
  BY <1>3 DEF Registered
<1>6. r \in Call /\ Knows(r) /\ (\A k : ~Carries(r, k)) /\ (\A t : Holds(r, t) <=> t \in gone)
  <2> HIDE DEF gone
  <2> QED BY <1>4 DEF Idle, Call, Knows, Holds, Carries, CallerPlaces
<1> HIDE DEF gone, r
<1>7. CallersInv' /\ \A x \in Callers : caller'[x] = IF x = c THEN r ELSE caller[x]
  BY <1>1, <1>6, CallerMoves DEF IngestionInv
<1>8. Tables'
  BY <1>1, <1>2 DEF Tables
<1>9. \A k \in Chunks : ChunkInv(k)'
  BY <1>1, <1>6, <1>7, ChunkFrame DEF IngestionInv
<1>10. \A x \in Exchanges : \A t \in Sessions : registry'[x] = t => x \notin TimedOut /\ registry[x] = t
  BY <1>1
<1>11. ASSUME NEW t \in Sessions PROVE SessionInv(t)'
  <2>1. CASE t \in gone
    <3>1. /\ ended[t] = 0 /\ session[t].made
          /\ \A x \in Callers : ~Holds(caller[x], t)
      BY <1>3, <1>5, <2>1 DEF IngestionInv, SessionInv, Ending
    <3>2. \A x \in Exchanges : registry'[x] # t
      BY <1>3, <1>5, <1>10, <2>1 DEF IngestionInv, SessionInv
    <3>3. \A x \in Callers : Holds(caller'[x], t) => x = c
      BY <1>7, <3>1
    <3>4. t \notin Registered'
      BY <3>2 DEF Registered
    <3> QED BY <1>1, <3>1, <3>2, <3>3, <3>4 DEF SessionInv, Ending
  <2>2. CASE t \notin gone
    <3>1. \A x \in Callers : Holds(caller'[x], t) => Holds(caller[x], t)
      BY <1>6, <1>7, <2>2
    <3>2. t \in Registered' => t \in Registered
      BY <1>10 DEF Registered
    <3> QED BY <1>1, <1>10, <3>1, <3>2 DEF IngestionInv, SessionInv, Ending
  <2> QED BY <2>1, <2>2
<1> QED BY <1>7, <1>8, <1>9, <1>11, TypesAreTables DEF IngestionInv

LEMMA CleanupAnnounceKeeps ==
    ASSUME IngestionInv, NEW c \in Callers, CleanupAnnounce(c)
    PROVE  IngestionInv'
<1>1. PICK r : r = [caller[c] EXCEPT !.at = "drop"]
  OBVIOUS
<1>2. /\ ended' = [s \in Sessions |-> ended[s] + (IF s \in caller[c].gone THEN 1 ELSE 0)]
      /\ caller' = [caller EXCEPT ![c] = r]
      /\ UNCHANGED <<registry, buffers, session, detector, checks, content, sent, forwarded>>
  BY <1>1 DEF CleanupAnnounce, Goto
<1>3. r \in Call /\ r.at = "drop"
  BY <1>1, Turned DEF IngestionInv, CallerPlaces
<1>4. Knows(r) /\ (\A k : ~Carries(r, k)) /\ (\A t : ~Holds(r, t))
  BY <1>3 DEF Knows, Carries, Holds
<1>5. CallersInv' /\ \A x \in Callers : caller'[x] = IF x = c THEN r ELSE caller[x]
  BY <1>2, <1>3, <1>4, CallerMoves DEF IngestionInv
<1>6. Tables
  BY TypesAreTables DEF IngestionInv
<1>7. Tables' /\ \A t \in Sessions : ended'[t] = IF t \in caller[c].gone THEN ended[t] + 1 ELSE ended[t]
  BY <1>2, <1>6 DEF Tables
<1>8. \A k \in Chunks : ChunkInv(k)'
  BY <1>2, <1>4, <1>5, ChunkFrame DEF IngestionInv
<1>9. ASSUME NEW t \in Sessions PROVE SessionInv(t)'
  <2>1. \A x \in Callers : Holds(caller'[x], t) => x # c /\ Holds(caller[x], t)
    BY <1>4, <1>5
  <2>2. CASE t \in caller[c].gone
    <3>0. Holds(caller[c], t)
      BY <2>2 DEF Holds, CleanupAnnounce, At
    <3>1. ended[t] = 0 /\ session[t].made /\ t \notin Registered
      BY <3>0 DEF IngestionInv, SessionInv, Ending
    <3>2. \A x \in Callers : ~Holds(caller'[x], t)
      BY <2>1, <3>0 DEF IngestionInv, SessionInv, Ending
    <3>3. ended'[t] = 1
      BY <1>7, <2>2, <3>1
    <3>4. \A x \in Exchanges : registry'[x] = t => session'[t].made /\ session'[t].exchange = x
      BY <1>2 DEF IngestionInv, SessionInv
    <3> QED BY <1>2, <3>1, <3>2, <3>3, <3>4 DEF SessionInv, Ending, Registered
  <2>3. CASE t \notin caller[c].gone
    <3>1. ended'[t] = ended[t]
      BY <1>7, <2>3
    <3> QED BY <1>2, <2>1, <3>1 DEF IngestionInv, SessionInv, Ending, Registered
  <2> QED BY <2>2, <2>3
<1> QED BY <1>5, <1>7, <1>8, <1>9, TypesAreTables DEF IngestionInv

LEMMA CleanupDropKeeps ==
    ASSUME IngestionInv, NEW c \in Callers, CleanupDrop(c)
    PROVE  IngestionInv'
<1>1. Tables'
  BY TypesAreTables DEF CleanupDrop, Tables, IngestionInv
<1> QED BY <1>1, IdleCall, QuietMove DEF CleanupDrop, Done

LEMMA CheckKeeps ==
    ASSUME IngestionInv, NEW d \in Detectors, CheckSilence(d)
    PROVE  IngestionInv'
<1>1. Tables
  BY TypesAreTables DEF IngestionInv
<1>2. checks' \in [Detectors -> Nat]
  BY <1>1 DEF CheckSilence, Tables
<1>3. detector' \in [Detectors -> SilenceDetector]
  <2>1. [detector[d] EXCEPT !.triggered = TRUE] \in SilenceDetector
    BY <1>1, DetectorWrites DEF Tables
  <2>2. UNCHANGED detector \/ detector' = [detector EXCEPT ![d] = [detector[d] EXCEPT !.triggered = TRUE]]
    BY DEF CheckSilence
  <2> QED BY <1>1, <2>1, <2>2 DEF Tables
<1>4. Tables'
  BY <1>1, <1>2, <1>3 DEF CheckSilence, Tables
<1> QED BY <1>4, QuietTime DEF CheckSilence

LEMMA TickKeeps ==
    ASSUME IngestionInv, Tick
    PROVE  IngestionInv'
<1>1. Tables
  BY TypesAreTables DEF IngestionInv
<1>2. ASSUME NEW s \in Sessions PROVE Becomes(session[s], session'[s])
  <2>1. session'[s] = IF s \in Registered /\ session[s].idle <= Timeout
                      THEN [session[s] EXCEPT !.idle = @ + 1] ELSE session[s]
    BY DEF Tick
  <2>2. session[s] \in AudioSession
    BY <1>1 DEF Tables
  <2> QED BY <2>1, <2>2, SessionWrites DEF Becomes
<1>3. ASSUME NEW d \in Detectors PROVE detector'[d] \in SilenceDetector
  <2> DEFINE age == IF detector[d].age < Threshold THEN detector[d].age + 1 ELSE detector[d].age
             timer == IF detector[d].timer \in {1, None} THEN None ELSE detector[d].timer - 1
  <2>1. detector[d] \in SilenceDetector
    BY <1>1 DEF Tables
  <2>2. CASE Heard(d)
    <3>1. detector'[d] = [detector[d] EXCEPT !.age = age, !.timer = timer]
      BY <2>2 DEF Tick
    <3>2. age \in 0 .. Threshold \cup {None}
      BY <2>1, <2>2 DEF Heard, SilenceDetector
    <3>3. timer \in 1 .. Threshold \cup {None}
      BY <2>1 DEF SilenceDetector
    <3>4. \A n \in 0 .. Threshold \cup {None}, m \in 1 .. Threshold \cup {None} :
             [detector[d] EXCEPT !.age = n, !.timer = m] \in SilenceDetector
      BY <2>1, DetectorWrites
    <3> HIDE DEF age, timer
    <3> QED BY <3>1, <3>2, <3>3, <3>4, Zenon
  <2>3. CASE ~Heard(d)
    BY <2>1, <2>3 DEF Tick
  <2> QED BY <2>2, <2>3
<1>4. session' \in [Sessions -> AudioSession] /\ detector' \in [Detectors -> SilenceDetector]
  BY <1>2, <1>3 DEF Tick, Becomes
<1>5. checks' \in [Detectors -> Nat]
  <2>1. checks' = [d \in Detectors |-> IF detector[d].timer = 1 THEN checks[d] + 1 ELSE checks[d]]
    BY DEF Tick
  <2>2. ASSUME NEW d \in Detectors
        PROVE  (IF detector[d].timer = 1 THEN checks[d] + 1 ELSE checks[d]) \in Nat
    BY <1>1 DEF Tables
  <2> QED BY <2>1, <2>2
<1>6. Tables'
  BY <1>1, <1>4, <1>5 DEF Tick, Tables
<1> QED BY <1>2, <1>6, QuietTime DEF Tick, Becomes

LEMMA StepPreserves == IngestionInv /\ [Next]_vars => IngestionInv'
<1> SUFFICES ASSUME IngestionInv, [Next]_vars PROVE IngestionInv'
  OBVIOUS
<1>1. ASSUME NEW c \in Controllers, Control(c) PROVE IngestionInv'
  BY <1>1, StartKeeps, GetKeeps, StopFlushKeeps DEF Control, Callers
<1>2. ASSUME NEW c \in Streams, NEW e \in Exchanges, IngestCheck(c, e) PROVE IngestionInv'
  BY <1>2, IngestCheckKeeps DEF Callers
<1>3. ASSUME NEW c \in Cleaners, CleanupRemove(c) PROVE IngestionInv'
  BY <1>3, CleanupRemoveKeeps DEF Callers
<1>4. ASSUME NEW c \in Callers, Continue(c) PROVE IngestionInv'
  BY <1>4, CreateBufferKeeps, PauseKeeps, ResumeKeeps, StopRemoveKeeps, StopCloseKeeps,
     StopAnnounceKeeps, IngestFindKeeps, IngestAddKeeps, IngestFeedKeeps, IngestWindowsKeeps,
     IngestForwardKeeps, CleanupAnnounceKeeps, CleanupDropKeeps DEF Continue
<1>5. ASSUME NEW d \in Detectors, CheckSilence(d) PROVE IngestionInv'
  BY <1>5, CheckKeeps
<1>6. CASE Tick
  BY <1>6, TickKeeps
<1>7. CASE UNCHANGED vars
  <2>1. Tables'
    BY <1>7, TypesAreTables DEF vars, Tables, IngestionInv
  <2> QED BY <1>7, <2>1, QuietTime DEF vars
<1> QED BY <1>1, <1>2, <1>3, <1>4, <1>5, <1>6, <1>7 DEF Next

-----------------------------------------------------------------------------
(* The theorems.                                                           *)

\* The invariant holds in every reachable state: a session is registered, or its
\* end is pending with one thread, or was announced; a chunk is with its thread,
\* or in one buffer, or was transcribed.
THEOREM IngestionInvariance == Spec => []IngestionInv
<1>1. Init => IngestionInv
  BY InitialState
<1>2. IngestionInv /\ [Next]_vars => IngestionInv'
  BY StepPreserves
<1> QED BY <1>1, <1>2, PTL DEF Spec

\* The registry, the buffers, the sessions and the detectors keep their types.
THEOREM IngestionTypes == Spec => []TypeOK
<1>1. IngestionInv => TypeOK
  BY DEF IngestionInv
<1> QED BY <1>1, IngestionInvariance, PTL

\* However stops, clean-ups and streams overlap, the end of a session is announced
\* once at most, and no chunk is transcribed twice.
THEOREM NothingIsAnnouncedTwice == Spec => []AnnouncedAtMostOnce
<1>1. IngestionInv => AnnouncedAtMostOnce
  <2> SUFFICES ASSUME IngestionInv PROVE AnnouncedAtMostOnce
    OBVIOUS
  <2>1. ASSUME NEW s \in Sessions
        PROVE  ended[s] + Cardinality({c \in Callers :
                  \/ At(c, "announce") /\ caller[c].session = s
                  \/ At(c, "expire") /\ s \in caller[c].gone}) <= 1
    <3> DEFINE H == {c \in Callers : \/ At(c, "announce") /\ caller[c].session = s
                                     \/ At(c, "expire") /\ s \in caller[c].gone}
    <3>1. \A c \in H : c \in Callers /\ Ending(c, s)
      BY DEF At, Ending, Holds
    <3>2. SessionInv(s) /\ ended[s] \in Nat
      BY DEF IngestionInv, TypeOK
    <3> HIDE DEF H
    <3>3. ended[s] + Cardinality(H) <= 1
      <4>1. CASE H = {}
        <5>1. Cardinality(H) = 0
          BY <4>1, FS_EmptySet
        <5> QED BY <3>2, <5>1 DEF SessionInv
      <4>2. CASE H # {}
        <5>1. PICK c : c \in H
          BY <4>2
        <5>2. H = {c} /\ ended[s] = 0
          BY <3>1, <3>2, <5>1 DEF SessionInv
        <5>3. Cardinality(H) = 1
          BY <5>2, FS_Singleton
        <5> QED BY <5>2, <5>3
      <4> QED BY <4>1, <4>2
    <3> QED BY <3>3 DEF H
  <2>2. ASSUME NEW k \in Chunks
        PROVE  /\ forwarded[k] <= 1
               /\ forwarded[k] = 1 => \A s \in Sessions : k \notin content[s]
    BY DEF IngestionInv, ChunkInv
  <2> QED BY <2>1, <2>2 DEF AnnouncedAtMostOnce
<1> QED BY <1>1, IngestionInvariance, PTL

\* A detector decides while it is open and after a whole threshold without audio:
\* no other step raises its flag, and the check looks at the clock again.
THEOREM DecisionsAreOnSilence == Spec => DecidesOnSilenceOnly
<1> DEFINE Decides == \A d \in Detectors :
              detector'[d].triggered /\ ~detector[d].triggered
              => ~detector[d].closed /\ detector[d].age = Threshold
<1>1. TypeOK /\ [Next]_vars => [Decides]_vars
  <2> SUFFICES ASSUME TypeOK, Next, NEW d \in Detectors,
                      detector'[d].triggered, ~detector[d].triggered
               PROVE  ~detector[d].closed /\ detector[d].age = Threshold
    OBVIOUS
  <2>0. detector \in [Detectors -> SilenceDetector]
    BY DEF TypeOK, SilenceDetector
  <2>1. ASSUME NEW x \in Detectors, CheckSilence(x)
        PROVE  ~detector[d].closed /\ detector[d].age = Threshold
    <3>1. x = d /\ ~FalseAlarm(d)
      BY <2>0, <2>1 DEF CheckSilence
    <3>2. detector[d].age \in 0 .. Threshold \cup {None}
      BY <2>0 DEF SilenceDetector
    <3> QED BY <3>1, <3>2 DEF FalseAlarm
  <2>2. ASSUME NEW c \in Callers, NEW e \in Exchanges, StartSession(c, e) PROVE FALSE
    BY <2>0, <2>2 DEF StartSession
  <2>3. ASSUME NEW c \in Callers, PauseSession(c) \/ StopClose(c) \/ ResumeSession(c) \/ IngestFeed(c)
        PROVE  FALSE
    <3>1. PICK x, s : \/ UNCHANGED detector
                      \/ detector' = [detector EXCEPT ![x] = Cancelled(@)]
                      \/ detector' = [detector EXCEPT ![x].owner = s]
                      \/ detector' = [detector EXCEPT ![x] = IF @.closed THEN @ ELSE Feed(@)]
      BY <2>3 DEF PauseSession, StopClose, ResumeSession, IngestFeed
    <3>2. \/ detector'[d] = detector[d] \/ detector'[d] = Cancelled(detector[d])
          \/ detector'[d] = [detector[d] EXCEPT !.owner = s] \/ detector'[d] = Feed(detector[d])
      BY <2>0, <3>1
    <3>3. ~Feed(detector[d]).triggered /\ ~Cancelled(detector[d]).triggered
          /\ ~[detector[d] EXCEPT !.owner = s].triggered
      BY <2>0, Zenon DEF Cancelled, Feed, SilenceDetector
    <3> QED BY <3>2, <3>3
  <2>4. CASE Tick
    <3>1. PICK n, m : \/ detector'[d] = detector[d]
                      \/ detector'[d] = [detector[d] EXCEPT !.age = n, !.timer = m]
      BY <2>4 DEF Tick
    <3>2. ~[detector[d] EXCEPT !.age = n, !.timer = m].triggered
      BY <2>0, Zenon DEF SilenceDetector
    <3> QED BY <3>1, <3>2
  <2>5. CASE UNCHANGED detector
    BY <2>5
  <2> QED BY <2>1, <2>2, <2>3, <2>4, <2>5 DEF Next, Control, Continue, Callers, GetSession,
        StopFlush, CreateBuffer, StopRemove, StopAnnounce, IngestFind, IngestAdd, IngestWindows,
        IngestForward, CleanupAnnounce, CleanupDrop, CleanupRemove, IngestCheck
<1>2. Spec => [][Next]_vars
  BY DEF Spec
<1> QED BY <1>1, <1>2, IngestionTypes, PTL DEF DecidesOnSilenceOnly
=============================================================================
