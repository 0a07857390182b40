-------------------------- MODULE TyposCacheProofs --------------------------
(* Theorems about TyposCache, for any processes, authorities and times: what *)
(* holds however invocations overlap, then what holds where they do not.     *)
EXTENDS TyposCache, TLAPS

(* Where a text and its metadata come from **********************************)

\* The metadata was made of this text: by its tag, by its date, or by the time
\* the file had before it was read.
MadeOf(m, t) ==
    /\ t.source = m.source
    /\ \/ m.etag = t /\ m.modified \in {0, t.time} /\ m.mtime = 0
       \/ m.etag = Absent /\ m.modified = t.time /\ m.mtime = 0
       \/ m.etag = Absent /\ m.modified = 0 /\ m.mtime \in 1..t.time
    /\ m.modified # 0 => m.source \in Dated

\* An invocation that will install a text, and one that installed it.
Installing(i) ==
    \/ i.pc = "answered" /\ i.reply # Same
    \/ i.pc \in {"writeCache", "writeMetadata"}

\* What an invocation holds in memory is true of what authorities have held,
\* and of what has been written.
Sound(i, held, written) ==
    /\ i.pc \in {"waiting", "answered"} => i.source \in Remotes
    /\ i.pc = "read" =>
        /\ i.source \in Locals
        /\ i.reply \in Metadata /\ i.reply.source = i.source
        /\ i.reply.etag = Absent /\ i.reply.modified = 0
        /\ i.reply.mtime \in 1..held[i.source].time
    /\ Installing(i) =>
        i.text \in Texts /\ i.reply \in Metadata /\ MadeOf(i.reply, i.text)
    /\ i.pc \in {"writeCache", "writeConfig"} => i.text \in Texts /\ WellFormed(i.text)
    /\ i.pc = "writeMetadata" => i.text \in written

AuthoritySound ==
    \A s \in Sources : authority[s].source = s /\ authority[s].time <= clock

MetadataMade == metadata # NoMetadata => \E t \in cached : MadeOf(metadata, t)

\* What every step preserves, however invocations overlap.
IInv ==
    /\ TypeOK
    /\ AuthoritySound
    /\ MalformedNeverInstalled
    /\ MetadataMade
    /\ \A p \in Procs : Sound(proc[p], authority, cached)

(* Types ********************************************************************)

\* The records the steps build are of their kinds.
LEMMA RecordTypes ==
    /\ NoMetadata \in Metadata
    /\ \A s \in Sources, t \in Times : [source |-> s, time |-> t] \in Texts
    /\ \A t \in Texts : t.source \in Sources /\ t.time \in Times
    /\ Times \subseteq 1..MaxTime /\ Times \subseteq 0..MaxTime
    /\ 1 \in Times
<1>1. NoMetadata \in Metadata
  BY BoundsAssumption DEF NoMetadata, Metadata
<1>2. QED
  BY <1>1, BoundsAssumption DEF Texts, Times

LEMMA IdleType ==
    ASSUME NEW r \in {"none", "refreshed", "current", "stale-cache", "offline-cache",
                      "tracked-config", "failed", "killed"}
    PROVE  Idle(r) \in Invocations /\ Idle(r).pc = "idle"
BY RecordTypes, BoundsAssumption DEF Idle, Invocations

\* The validators of an answer are made of the text it carries.
LEMMA HeadersMade ==
    ASSUME TypeOK, AuthoritySound, NEW s \in Remotes
    PROVE  /\ Headers(s) \in Metadata
           /\ MadeOf(Headers(s), authority[s])
<1>1. s \in Sources /\ authority[s] \in Texts /\ authority[s].source = s
  BY DEF TypeOK, AuthoritySound, Sources
<1>2. authority[s].time \in 0..MaxTime
  BY <1>1, RecordTypes
<1>3. Headers(s) \in Metadata
  BY <1>1, <1>2, BoundsAssumption DEF Headers, Metadata
<1>4. QED
  BY <1>1, <1>3 DEF Headers, MadeOf, Remotes

\* Metadata vouches for the text it was made of.
LEMMA MadeVouched ==
    ASSUME NEW m \in Metadata, NEW t \in Texts, MadeOf(m, t)
    PROVE  t \in VouchedFor(m)
<1>1. t.time \in Nat /\ m.mtime \in Nat
  BY RecordTypes, BoundsAssumption DEF Metadata, Times
<1>2. QED
  BY <1>1 DEF MadeOf, VouchedFor

(* One step of an invocation ************************************************)

\* How an invocation ends, or goes on to generate from the cache.
Resolves(p) ==
    \/ \E r \in {"none", "refreshed", "current", "stale-cache", "offline-cache",
                 "tracked-config", "failed", "killed"} :
          Finish(p, r) \/ Use(p, r)

LEMMA ResolvesSound ==
    ASSUME IInv, NEW p \in Procs, Resolves(p)
    PROVE  \E i \in Invocations : Become(p, i) /\ \A held, written : Sound(i, held, written)
<1>1. PICK r \in {"none", "refreshed", "current", "stale-cache", "offline-cache",
                  "tracked-config", "failed", "killed"} : Finish(p, r) \/ Use(p, r)
  BY DEF Resolves
<1>2. CASE Finish(p, r)
  <2>1. Become(p, Idle(r))
    BY <1>2 DEF Finish
  <2>2. Idle(r) \in Invocations /\ \A held, written : Sound(Idle(r), held, written)
    BY IdleType DEF Sound, Installing
  <2>3. QED
    BY <2>1, <2>2
<1>3. CASE Use(p, r)
  <2> DEFINE i == [Idle(r) EXCEPT !.pc = "load", !.source = proc[p].source,
                                  !.due = proc[p].due]
  <2>1. Become(p, i)
    BY <1>3 DEF Use
  <2>2. proc[p] \in Invocations
    BY DEF IInv, TypeOK
  <2>3. i \in Invocations /\ i.pc = "load"
    <3> DEFINE fresh == Idle(r)
    <3>1. fresh \in Invocations
      BY IdleType
    <3> HIDE DEF fresh
    <3>2. [fresh EXCEPT !.pc = "load", !.source = proc[p].source, !.due = proc[p].due]
            \in Invocations
      BY <2>2, <3>1 DEF Invocations
    <3>3. QED
      BY <3>1, <3>2 DEF fresh, Invocations
  <2>4. \A held, written : Sound(i, held, written)
    BY <2>3 DEF Sound, Installing
  <2> HIDE DEF i
  <2>5. QED
    BY <2>1, <2>3, <2>4
<1>4. QED
  BY <1>1, <1>2, <1>3

\* Whatever an invocation does, its record stays sound.
LEMMA InvocationSound ==
    ASSUME IInv, NEW p \in Procs, Invocation(p)
    PROVE  \E i \in Invocations : Become(p, i) /\ Sound(i, authority', cached')
<1> DEFINE o == proc[p]
<1> o \in Invocations /\ Sound(o, authority, cached) /\ authority \in [Sources -> Texts]
  BY DEF IInv, TypeOK
<1>1. CASE Resolves(p)
  BY <1>1, ResolvesSound
<1>2. CASE BeginRemote(p)
  <2>1. PICK s \in Remotes :
          Become(p, [Idle("none") EXCEPT !.pc = "waiting", !.source = s,
                                         !.saved = metadata, !.due = authority[s].time])
    BY <1>2 DEF BeginRemote
  <2> DEFINE i == [Idle("none") EXCEPT !.pc = "waiting", !.source = s,
                                       !.saved = metadata, !.due = authority[s].time]
  <2>2. authority[s].time \in 0..MaxTime /\ metadata \in Metadata /\ s \in Sources
    BY RecordTypes DEF IInv, TypeOK, Sources
  <2>3. i \in Invocations /\ i.pc = "waiting" /\ i.source = s
    BY <2>2, IdleType DEF Invocations
  <2>4. Sound(i, authority', cached')
    BY <2>3 DEF Sound, Installing
  <2> HIDE DEF i
  <2>5. QED
    BY <2>1, <2>3, <2>4 DEF i
<1>3. CASE Answer(p) /\ Become(p, [o EXCEPT !.pc = "answered", !.reply = Same])
  <2> DEFINE i == [o EXCEPT !.pc = "answered", !.reply = Same]
  <2>1. i \in Invocations /\ i.pc = "answered" /\ i.reply = Same /\ i.source = o.source
    BY DEF Invocations
  <2>2. Sound(i, authority', cached')
    BY <1>3, <2>1 DEF Answer, At, Sound, Installing
  <2> HIDE DEF i
  <2>3. QED
    BY <1>3, <2>1, <2>2 DEF i
<1>4. CASE /\ Answer(p)
           /\ Become(p, [o EXCEPT !.pc = "answered", !.reply = Headers(o.source),
                                  !.text = authority[o.source]])
  <2> DEFINE i == [o EXCEPT !.pc = "answered", !.reply = Headers(o.source),
                            !.text = authority[o.source]]
  <2>1. o.source \in Remotes /\ o.source \in Sources
    BY <1>4 DEF Answer, At, Sound, Sources
  <2>2. /\ Headers(o.source) \in Metadata /\ authority[o.source] \in Texts
        /\ MadeOf(Headers(o.source), authority[o.source])
    BY <2>1, HeadersMade DEF IInv
  <2>3. /\ i \in Invocations /\ i.pc = "answered" /\ i.source = o.source
        /\ i.reply = Headers(o.source) /\ i.text = authority[o.source]
    BY <2>2 DEF Invocations
  <2>4. Sound(i, authority', cached')
    BY <2>1, <2>2, <2>3 DEF Sound, Installing
  <2> HIDE DEF i
  <2>5. QED
    BY <1>4, <2>3, <2>4 DEF i
<1>5. CASE Respond(p) /\ WellFormed(o.text) /\ Goto(p, "writeCache")
  <2> DEFINE i == [o EXCEPT !.pc = "writeCache"]
  <2>1. /\ i \in Invocations /\ i.pc = "writeCache"
        /\ i.reply = o.reply /\ i.text = o.text
    BY DEF Invocations
  <2>2. Sound(i, authority', cached')
    BY <1>5, <2>1 DEF Respond, At, Sound, Installing
  <2> HIDE DEF i
  <2>3. QED
    BY <1>5, <2>1, <2>2 DEF i, Goto
<1>6. CASE BeginLocal(p)
  <2>1. PICK s \in Locals :
          LET begun == [Idle("none") EXCEPT
                          !.pc = "read", !.source = s, !.due = authority[s].time,
                          !.reply = [NoMetadata EXCEPT !.source = s,
                                                       !.mtime = authority[s].time]]
          IN  \/ Become(p, [begun EXCEPT !.pc = "load", !.reply = Absent,
                                         !.status = "current"])
              \/ Become(p, begun)
    BY <1>6 DEF BeginLocal
  <2> DEFINE begun == [Idle("none") EXCEPT
                         !.pc = "read", !.source = s, !.due = authority[s].time,
                         !.reply = [NoMetadata EXCEPT !.source = s,
                                                      !.mtime = authority[s].time]]
             i == [begun EXCEPT !.pc = "load", !.reply = Absent, !.status = "current"]
             mark == [NoMetadata EXCEPT !.source = s, !.mtime = authority[s].time]
  <2>2. authority[s].time \in 1..MaxTime /\ authority[s].time \in 0..MaxTime /\ s \in Sources
    BY RecordTypes DEF Sources
  <2>3. /\ mark \in Metadata /\ mark.source = s /\ mark.etag = Absent
        /\ mark.modified = 0 /\ mark.mtime = authority[s].time
    BY <2>2, RecordTypes DEF NoMetadata, Metadata
  <2> HIDE DEF mark
  <2>4. begun = [Idle("none") EXCEPT !.pc = "read", !.source = s,
                                     !.due = authority[s].time, !.reply = mark]
    BY DEF mark
  <2>5. /\ begun \in Invocations /\ begun.pc = "read"
        /\ begun.source = s /\ begun.reply = mark
    <3> HIDE DEF begun
    <3>1. QED
      BY <2>2, <2>3, <2>4, IdleType DEF Invocations
  <2>6. i \in Invocations /\ i.pc = "load"
    <3> HIDE DEF begun
    <3>1. QED
      BY <2>5 DEF Invocations
  <2>7. Become(p, i) \/ Become(p, begun)
    BY <2>1
  <2> HIDE DEF i, begun
  <2>8. Sound(i, authority', cached')
    BY <2>6 DEF Sound, Installing
  <2>9. Sound(begun, authority', cached')
    <3>1. UNCHANGED authority
      BY <1>6 DEF BeginLocal, outside
    <3>2. QED
      BY <2>2, <2>3, <2>5, <3>1 DEF Sound, Installing
  <2>10. QED
    BY <2>5, <2>6, <2>7, <2>8, <2>9
<1>7. CASE ReadLocal(p) /\ ~Resolves(p)
  <2> DEFINE i == [o EXCEPT !.pc = "writeCache", !.text = authority[o.source]]
  <2>1. /\ o.pc = "read" /\ WellFormed(authority[o.source])
        /\ Become(p, i) /\ UNCHANGED <<authority, cached>>
    BY <1>7 DEF ReadLocal, At, Resolves, outside, files, history
  <2>2. o.source \in Locals /\ o.source \in Sources /\ authority[o.source] \in Texts
    BY <2>1 DEF Sound, Sources
  <2>3. /\ i \in Invocations /\ i.pc = "writeCache"
        /\ i.reply = o.reply /\ i.text = authority[o.source]
    BY <2>2 DEF Invocations
  <2>4. /\ o.reply \in Metadata /\ o.reply.source = o.source
        /\ o.reply.etag = Absent /\ o.reply.modified = 0
        /\ o.reply.mtime \in 1..authority[o.source].time
    BY <2>1 DEF Sound
  <2>5. authority[o.source].source = o.source /\ authority[o.source].time \in 1..MaxTime
    BY <2>2, RecordTypes DEF IInv, AuthoritySound
  <2>6. MadeOf(o.reply, authority[o.source])
    BY <2>4, <2>5 DEF MadeOf
  <2> HIDE DEF i
  <2>7. Sound(i, authority', cached')
    BY <2>1, <2>2, <2>3, <2>4, <2>6 DEF Sound, Installing
  <2>8. QED
    BY <2>1, <2>3, <2>7
<1>8. CASE WriteCache(p)
  <2> DEFINE i == [o EXCEPT !.pc = "writeMetadata"]
  <2>1. /\ i \in Invocations /\ i.pc = "writeMetadata"
        /\ i.reply = o.reply /\ i.text = o.text
    BY DEF Invocations
  <2>2. Sound(i, authority', cached')
    BY <1>8, <2>1 DEF WriteCache, At, Sound, Installing
  <2>3. Become(p, i)
    BY <1>8 DEF WriteCache, Goto
  <2> HIDE DEF i
  <2>4. QED
    BY <2>1, <2>2, <2>3
<1>9. CASE LoadDictionary(p) /\ ~Resolves(p)
  <2> DEFINE i == [o EXCEPT !.pc = "writeConfig", !.text = cache]
  <2>1. ValidCache /\ Become(p, i)
    BY <1>9 DEF LoadDictionary, Resolves
  <2>2. cache \in Texts
    BY <2>1 DEF ValidCache, IInv, TypeOK
  <2>3. i \in Invocations /\ i.pc = "writeConfig" /\ i.text = cache
    BY <2>2 DEF Invocations
  <2> HIDE DEF i
  <2>4. Sound(i, authority', cached')
    BY <2>1, <2>2, <2>3 DEF Sound, Installing, ValidCache
  <2>5. QED
    BY <2>1, <2>3, <2>4
<1>10. CASE \/ BeginOffline(p) \/ Unavailable(p) \/ NotModified(p) \/ BodyLost(p)
            \/ WriteMetadata(p) \/ WriteFails(p) \/ WriteConfig(p) \/ Crash(p)
  <2>1. o.status \in {"none", "refreshed", "current", "stale-cache", "offline-cache",
                      "tracked-config", "failed", "killed"}
    BY DEF Invocations
  <2>2. Resolves(p)
    BY <1>10, <2>1
       DEF BeginOffline, Unavailable, NotModified, BodyLost, WriteMetadata, WriteFails,
           WriteConfig, Crash, StaleCacheOrRaise, RaiseOSError, Resolves
  <2>3. QED
    BY <2>2, ResolvesSound
<1>11. CASE Answer(p)
  BY <1>3, <1>4, <1>11 DEF Answer
<1>12. CASE Respond(p)
  <2>1. Resolves(p) \/ (WellFormed(o.text) /\ Goto(p, "writeCache"))
    BY <1>12 DEF Respond, Resolves
  <2>2. QED
    BY <1>1, <1>5, <1>12, <2>1
<1>13. QED
  BY <1>1, <1>2, <1>6, <1>7, <1>8, <1>9, <1>10, <1>11, <1>12 DEF Invocation

(* Invariance ***************************************************************)

\* Sound stays so while authorities publish and the cache is written.
LEMMA SoundMonotone ==
    ASSUME TypeOK, TypeOK', cached \subseteq cached',
           \A s \in Sources : authority[s].time <= authority'[s].time,
           NEW i \in Invocations, Sound(i, authority, cached)
    PROVE  Sound(i, authority', cached')
<1>1. i.pc = "read" => /\ i.source \in Sources /\ i.reply.mtime \in 1..authority[i.source].time
                       /\ authority[i.source].time \in Nat /\ authority'[i.source].time \in Nat
  BY RecordTypes DEF Sound, TypeOK, Sources, Times
<1>2. i.pc = "read" => i.reply.mtime \in 1..authority'[i.source].time
  BY <1>1
<1>3. QED
  BY <1>2 DEF Sound, Installing

\* The three files, as an invocation leaves them.
LEMMA InvocationFiles ==
    ASSUME IInv, NEW p \in Procs, Invocation(p)
    PROVE  /\ UNCHANGED outside
           /\ cached \subseteq cached' /\ cached' \subseteq Texts
           /\ cache' \in Texts \cup {Absent} /\ (cache' # Absent => WellFormed(cache'))
           /\ config' \in Texts \cup {Absent} /\ (config' # Absent => WellFormed(config'))
           /\ metadata' \in Metadata
           /\ unvouched' \in BOOLEAN
           /\ MetadataMade'
<1> DEFINE o == proc[p]
<1> /\ o \in Invocations /\ Sound(o, authority, cached)
    /\ cache \in Texts \cup {Absent} /\ config \in Texts \cup {Absent}
    /\ cached \subseteq Texts /\ metadata \in Metadata /\ unvouched \in BOOLEAN
    /\ (cache # Absent => WellFormed(cache)) /\ (config # Absent => WellFormed(config))
    /\ MetadataMade
  BY DEF IInv, TypeOK, MalformedNeverInstalled
<1>1. CASE WriteCache(p)
  <2>1. o.text \in Texts /\ WellFormed(o.text)
    BY <1>1 DEF WriteCache, At, Sound
  <2>2. QED
    BY <1>1, <2>1 DEF WriteCache, MetadataMade
<1>2. CASE WriteMetadata(p)
  <2>1. o.reply \in Metadata /\ MadeOf(o.reply, o.text) /\ o.text \in cached
    BY <1>2 DEF WriteMetadata, At, Sound, Installing
  <2>2. metadata' = o.reply /\ UNCHANGED <<cached, cache, config, outside>>
    BY <1>2 DEF WriteMetadata
  <2>3. MetadataMade'
    BY <2>1, <2>2 DEF MetadataMade
  <2>4. QED
    BY <1>2, <2>1, <2>2, <2>3 DEF WriteMetadata
<1>3. CASE WriteConfig(p)
  <2>1. o.text \in Texts /\ WellFormed(o.text)
    BY <1>3 DEF WriteConfig, At, Sound
  <2>2. QED
    BY <1>3, <2>1 DEF WriteConfig, MetadataMade, history
<1>4. CASE UNCHANGED <<outside, files>>
  BY <1>4 DEF outside, files, history, MetadataMade
<1>5. QED
  BY <1>1, <1>2, <1>3, <1>4
     DEF Invocation, BeginOffline, BeginRemote, BeginLocal, Answer, Unavailable,
         NotModified, Respond, BodyLost, ReadLocal, WriteFails, LoadDictionary, Crash

\* An authority only ever goes on to a later text.
LEMMA PublishLater ==
    ASSUME IInv, Publish
    PROVE  /\ authority' \in [Sources -> Texts] /\ clock' \in Times
           /\ AuthoritySound'
           /\ \A s \in Sources : authority[s].time <= authority'[s].time
<1>1. PICK s \in Sources : authority' = [authority EXCEPT ![s] = [source |-> s, time |-> clock + 1]]
  BY DEF Publish
<1>2. clock' = clock + 1 /\ clock \in Times /\ clock' \in Times /\ clock < clock'
  BY BoundsAssumption DEF Publish, IInv, TypeOK, Times
<1>3. authority \in [Sources -> Texts] /\ authority' \in [Sources -> Texts]
  BY <1>1, <1>2, RecordTypes DEF IInv, TypeOK
<1>4. \A t \in Sources :
        /\ authority'[t].source = t /\ authority'[t].time <= clock'
        /\ authority[t].time <= authority'[t].time
  <2> SUFFICES ASSUME NEW t \in Sources
               PROVE  /\ authority'[t].source = t /\ authority'[t].time <= clock'
                      /\ authority[t].time <= authority'[t].time
    OBVIOUS
  <2>1. authority[t].source = t /\ authority[t].time <= clock /\ authority[t].time \in Times
    BY <1>3, RecordTypes DEF IInv, AuthoritySound
  <2>2. CASE t = s
    BY <1>1, <1>2, <1>3, <2>1, <2>2 DEF Times
  <2>3. CASE t # s
    BY <1>1, <1>2, <1>3, <2>1, <2>3 DEF Times
  <2>4. QED
    BY <2>2, <2>3
<1>5. QED
  BY <1>2, <1>3, <1>4 DEF AuthoritySound

LEMMA InitIInv == Init => IInv
<1> SUFFICES ASSUME Init PROVE IInv
  OBVIOUS
<1>1. TypeOK
  BY RecordTypes, IdleType DEF Init, TypeOK, Times
<1>2. AuthoritySound /\ MalformedNeverInstalled /\ MetadataMade
  BY DEF Init, AuthoritySound, MalformedNeverInstalled, MetadataMade
<1>3. \A p \in Procs : Sound(proc[p], authority, cached)
  BY IdleType DEF Init, Sound, Installing
<1>4. QED
  BY <1>1, <1>2, <1>3 DEF IInv

\* IInv is inductive.
LEMMA StepIInv == IInv /\ [Next]_vars => IInv'
<1> SUFFICES ASSUME IInv, [Next]_vars PROVE IInv'
  OBVIOUS
<1>1. CASE \E p \in Procs : Invocation(p)
  <2>1. PICK p \in Procs : Invocation(p)
    BY <1>1
  <2>2. PICK i \in Invocations : Become(p, i) /\ Sound(i, authority', cached')
    BY <2>1, InvocationSound
  <2>3. proc' = [proc EXCEPT ![p] = i] /\ proc \in [Procs -> Invocations]
    BY <2>2 DEF Become, IInv, TypeOK
  <2>4. /\ UNCHANGED <<authority, clock>>
        /\ cached \subseteq cached' /\ cached' \subseteq Texts
        /\ cache' \in Texts \cup {Absent} /\ (cache' # Absent => WellFormed(cache'))
        /\ config' \in Texts \cup {Absent} /\ (config' # Absent => WellFormed(config'))
        /\ metadata' \in Metadata /\ unvouched' \in BOOLEAN /\ MetadataMade'
    BY <2>1, InvocationFiles DEF outside
  <2>5. TypeOK'
    BY <2>3, <2>4 DEF IInv, TypeOK
  <2>6. AuthoritySound' /\ MalformedNeverInstalled'
    BY <2>4 DEF IInv, AuthoritySound, MalformedNeverInstalled
  <2>7. \A s \in Sources : authority[s].time <= authority'[s].time
    BY <2>4, RecordTypes DEF IInv, TypeOK, Times
  <2>8. ASSUME NEW q \in Procs PROVE Sound(proc'[q], authority', cached')
    <3>1. CASE q = p
      BY <2>2, <2>3, <3>1
    <3>2. CASE q # p
      <4>1. proc'[q] = proc[q] /\ proc[q] \in Invocations
        BY <2>3, <3>2
      <4>2. Sound(proc[q], authority, cached) /\ TypeOK
        BY DEF IInv
      <4>3. PICK j \in Invocations : j = proc[q]
        BY <4>1
      <4>4. Sound(j, authority', cached')
        BY <2>4, <2>5, <2>7, <4>2, <4>3, SoundMonotone
      <4>5. QED
        BY <4>1, <4>3, <4>4
    <3>3. QED
      BY <3>1, <3>2
  <2>9. QED
    BY <2>4, <2>5, <2>6, <2>8 DEF IInv
<1>2. CASE Publish
  <2>1. UNCHANGED <<cache, metadata, config, cached, unvouched, proc>>
    BY <1>2 DEF Publish, files, history
  <2>2. /\ authority' \in [Sources -> Texts] /\ clock' \in Times
        /\ AuthoritySound'
        /\ \A s \in Sources : authority[s].time <= authority'[s].time
    BY <1>2, PublishLater
  <2>3. TypeOK'
    BY <2>1, <2>2 DEF IInv, TypeOK
  <2>4. ASSUME NEW q \in Procs PROVE Sound(proc'[q], authority', cached')
    <3>1. PICK j \in Invocations : j = proc[q] /\ j = proc'[q]
      BY <2>1 DEF IInv, TypeOK
    <3>2. Sound(j, authority, cached) /\ TypeOK /\ cached \subseteq cached'
      BY <2>1, <3>1 DEF IInv
    <3>3. QED
      BY <2>2, <2>3, <3>1, <3>2, SoundMonotone
  <2>5. QED
    BY <2>1, <2>2, <2>3, <2>4 DEF IInv, MalformedNeverInstalled, MetadataMade
<1>3. CASE CleanCheckout
  <2>1. /\ cache' = Absent /\ metadata' \in {metadata, NoMetadata}
        /\ UNCHANGED <<authority, clock, config, proc, cached, unvouched>>
    BY <1>3 DEF CleanCheckout, outside, history
  <2>2. TypeOK'
    BY <2>1, RecordTypes DEF IInv, TypeOK
  <2>3. QED
    BY <2>1, <2>2 DEF IInv, AuthoritySound, MalformedNeverInstalled, MetadataMade
<1>4. CASE UNCHANGED vars
  BY <1>4 DEF vars, outside, history, IInv, TypeOK, AuthoritySound,
              MalformedNeverInstalled, MetadataMade
<1>5. QED
  BY <1>1, <1>2, <1>3, <1>4 DEF Next

LEMMA AlwaysIInv == Spec => []IInv
<1>1. QED
  BY InitIInv, StepIInv, PTL DEF Spec

(* However invocations overlap **********************************************)

\* Cache, metadata and configuration are absent or whole, and what a process
\* holds is of its kind, however many of them overlap or are killed.
THEOREM TypeSafety == Spec => []TypeOK
<1>1. IInv => TypeOK
  BY DEF IInv
<1>2. QED
  BY AlwaysIInv, <1>1, PTL

\* No text that is not a dictionary reaches the cache or the configuration,
\* however many invocations overlap, and whichever of them are killed.
THEOREM MalformedSafety == Spec => []MalformedNeverInstalled
<1>1. IInv => MalformedNeverInstalled
  BY DEF IInv
<1>2. QED
  BY AlwaysIInv, <1>1, PTL

\* Metadata vouches for a text that was written to the cache before it.
THEOREM FollowsSafety == Spec => []MetadataFollowsCache
<1>1. IInv => MetadataFollowsCache
  <2> SUFFICES ASSUME IInv, metadata # NoMetadata
               PROVE  VouchedFor(metadata) \cap cached # {}
    BY DEF MetadataFollowsCache
  <2>1. PICK t \in cached : MadeOf(metadata, t)
    BY DEF IInv, MetadataMade
  <2>2. t \in VouchedFor(metadata)
    BY <2>1, MadeVouched DEF IInv, TypeOK
  <2>3. QED
    BY <2>1, <2>2
<1>2. QED
  BY AlwaysIInv, <1>1, PTL

(* Where invocations do not overlap *****************************************)

\* One process runs the helper, as often as it will.
NoOverlap == \A p, q \in Procs : p = q

OfItsAuthority(i, t) == t.source = i.source /\ t.time >= i.due
Unanswerable(i) == unvouched \/ (i.source \in Dated /\ OtherDated(i.source) # {})
Reported == {"refreshed", "current"}

\* A 304 confirms the text the saved tag names, or a date not before due.
Confirmed(i) ==
    \/ i.saved.etag \in Texts /\ OfItsAuthority(i, i.saved.etag)
    \/ i.source \in Dated /\ i.saved.modified # 0 /\ i.due <= i.saved.modified

\* Dates that are the same, or ordered, are in order.
LEMMA NotNewerByDate ==
    ASSUME NEW old, NEW new, old.modified \in Nat, new.modified \in Nat,
           DateIsNotNewer(old, new)
    PROVE  old.modified # 0 /\ new.modified # 0 /\ new.modified <= old.modified
<1>1. old.modified # 0 /\ new.modified # 0
  BY DEF DateIsNotNewer
<1>2. new.modified <= old.modified \/ new.modified = old.modified
  BY DEF DateIsNotNewer
<1>3. QED
  BY <1>1, <1>2

\* What the only invocation knows of the files and of its authority.
Informed(i) ==
    /\ i.pc \in {"waiting", "read"} => i.due <= authority[i.source].time
    /\ i.pc \in {"waiting", "answered"} => cache = Absent \/ metadata = i.saved
    /\ i.pc = "answered" /\ i.reply = Same => Confirmed(i)
    /\ Installing(i) => OfItsAuthority(i, i.text)
    /\ Installing(i) /\ i.pc # "writeMetadata" =>
        /\ i.text.time <= authority[i.text.source].time
        /\ \A t \in cached : t.source = i.text.source => t.time <= i.text.time
    /\ i.pc = "writeMetadata" => cache \in {Absent, i.text}
    /\ i.pc = "load" /\ i.status \in Reported =>
        cache = Absent \/ Unanswerable(i) \/ OfItsAuthority(i, cache)
    /\ i.pc = "writeConfig" /\ i.status \in Reported =>
        Unanswerable(i) \/ OfItsAuthority(i, i.text)

CachedOnceHeld == \A t \in cached : t.time <= authority[t.source].time

\* What the steps of one process preserve, beside IInv.
SoloInv ==
    /\ CachedOnceHeld
    /\ MetadataVouchesForCache
    /\ \A p \in Procs : Informed(proc[p])

\* A tag, a date and the time of a file each single out the text in the cache,
\* unless the last metadata write is missing.
LEMMA TagNamesCache ==
    ASSUME IInv, MetadataVouchesForCache, cache # Absent, ~unvouched,
           metadata.etag \in Texts
    PROVE  cache = metadata.etag
<1>1. metadata # NoMetadata /\ metadata.etag # Absent
  BY MarkersAssumption DEF NoMetadata
<1>2. cache \in VouchedFor(metadata)
  BY <1>1 DEF MetadataVouchesForCache
<1>3. QED
  BY <1>1, <1>2 DEF VouchedFor

LEMMA DateNamesCache ==
    ASSUME IInv, MetadataVouchesForCache, cache # Absent, ~unvouched,
           metadata.modified # 0, NEW s \in Dated, OtherDated(s) = {}
    PROVE  cache.source = s /\ cache.time = metadata.modified
<1>1. metadata # NoMetadata
  BY DEF NoMetadata
<1>2. cache \in VouchedFor(metadata) /\ cache \in Texts /\ cache # Absent
  BY <1>1 DEF MetadataVouchesForCache, VouchedFor
<1>3. PICK t \in cached : MadeOf(metadata, t)
  BY <1>1 DEF IInv, MetadataMade
<1>4. t \in Texts /\ t # Absent
  BY <1>3, MarkersAssumption DEF IInv, TypeOK
<1>5. metadata.source \in Dated /\ t.source = metadata.source /\ metadata.modified = t.time
  BY <1>3 DEF MadeOf
<1>6. metadata.source = s
  BY <1>3, <1>5 DEF OtherDated
<1>7. metadata.etag \in {t, Absent}
  BY <1>3 DEF MadeOf
<1>8. QED
  BY <1>2, <1>4, <1>5, <1>6, <1>7 DEF VouchedFor

LEMMA FileTimeNamesCache ==
    ASSUME IInv, MetadataVouchesForCache, cache # Absent, ~unvouched, metadata.mtime # 0
    PROVE  cache.source = metadata.source /\ cache.time >= metadata.mtime
<1>1. metadata # NoMetadata
  BY DEF NoMetadata
<1>2. cache \in VouchedFor(metadata) /\ cache \in Texts
  BY <1>1 DEF MetadataVouchesForCache, VouchedFor
<1>3. PICK t \in cached : MadeOf(metadata, t)
  BY <1>1 DEF IInv, MetadataMade
<1>4. metadata.etag = Absent /\ metadata.modified = 0 /\ cache.time # 0 /\ cache # Absent
  BY <1>2, <1>3, RecordTypes DEF MadeOf, Times
<1>5. QED
  BY <1>2, <1>4 DEF VouchedFor

\* The record of a process after the two ways to go on from a decision.
LEMMA UseFields ==
    ASSUME TypeOK, NEW p \in Procs, NEW r, Use(p, r)
    PROVE  /\ proc'[p].pc = "load" /\ proc'[p].status = r
           /\ proc'[p].source = proc[p].source /\ proc'[p].due = proc[p].due
BY DEF TypeOK, Use, Become, Idle

LEMMA GotoFields ==
    ASSUME TypeOK, NEW p \in Procs, NEW label, Goto(p, label)
    PROVE  /\ proc'[p].pc = label
           /\ proc'[p].source = proc[p].source /\ proc'[p].due = proc[p].due
           /\ proc'[p].reply = proc[p].reply /\ proc'[p].text = proc[p].text
           /\ proc'[p].saved = proc[p].saved /\ proc'[p].status = proc[p].status
BY DEF TypeOK, Goto, Become, Invocations

\* A step of the one invocation that decides, and writes no file.
LEMMA DecisionInformed ==
    ASSUME IInv, IInv', SoloInv, NEW p \in Procs, Invocation(p),
           ~WriteCache(p), ~WriteMetadata(p),
           UNCHANGED <<outside, cache, metadata, history>>
    PROVE  Informed(proc[p])'
<1> DEFINE o == proc[p]
           n == proc'[p]
<1>1. /\ o \in Invocations /\ n \in Invocations
      /\ Sound(o, authority, cached) /\ Informed(o) /\ TypeOK
      /\ proc \in [Procs -> Invocations]
      /\ MetadataVouchesForCache /\ CachedOnceHeld
  BY DEF IInv, TypeOK, SoloInv
<1>2. UNCHANGED <<authority, clock, cache, metadata, cached, unvouched>>
  BY DEF outside, history
<1>3. Unanswerable(proc[p])' <=> Unanswerable(n)
  BY <1>2 DEF Unanswerable, OtherDated
<1>4. CASE n.pc = "idle"
  BY <1>4 DEF Informed, Installing
<1>5. CASE n.pc = "load" /\ n.status \notin Reported
  BY <1>5 DEF Informed, Installing
<1>6. CASE BeginRemote(p)
  <2>1. PICK s \in Remotes :
          Become(p, [Idle("none") EXCEPT !.pc = "waiting", !.source = s,
                                         !.saved = metadata, !.due = authority[s].time])
    BY <1>6 DEF BeginRemote
  <2>2. n.pc = "waiting" /\ n.source = s /\ n.saved = metadata /\ n.due = authority[s].time
    BY <1>1, <2>1 DEF Become, Idle
  <2>3. authority[s].time <= authority[s].time
    BY RecordTypes DEF IInv, TypeOK, Sources, Times
  <2>4. QED
    BY <1>2, <2>2, <2>3 DEF Informed, Installing
<1>7. CASE Answer(p)
  <2>1. o.pc = "waiting" /\ o.source \in Remotes /\ o.source \in Sources
    BY <1>1, <1>7 DEF Answer, At, Sound, Sources
  <2>2. /\ authority[o.source] \in Texts /\ authority[o.source].source = o.source
        /\ o.due <= authority[o.source].time
    BY <1>1, <2>1 DEF Informed, IInv, TypeOK, AuthoritySound
  <2>3. \/ /\ n = [o EXCEPT !.pc = "answered", !.reply = Same]
           /\ \/ o.saved.etag = authority[o.source]
              \/ /\ o.source \notin Tagged
                 /\ o.saved.modified # 0 /\ authority[o.source].time <= o.saved.modified
        \/ n = [o EXCEPT !.pc = "answered", !.reply = Headers(o.source),
                         !.text = authority[o.source]]
    <3>1. /\ Headers(o.source).modified \in Nat
          /\ o.source \notin Tagged => Headers(o.source).modified = authority[o.source].time
      BY <2>1, <2>2, BoundsAssumption, RecordTypes DEF Headers, Remotes, Times
    <3>2. o.saved.modified \in Nat
      BY <1>1, BoundsAssumption DEF Invocations, Metadata
    <3>3. DateIsNotNewer(o.saved, Headers(o.source)) /\ o.source \notin Tagged =>
            o.saved.modified # 0 /\ authority[o.source].time <= o.saved.modified
      BY <3>1, <3>2, NotNewerByDate
    <3>4. \/ /\ n = [o EXCEPT !.pc = "answered", !.reply = Same]
             /\ \/ o.saved.etag = authority[o.source]
                \/ o.source \notin Tagged /\ DateIsNotNewer(o.saved, Headers(o.source))
          \/ n = [o EXCEPT !.pc = "answered", !.reply = Headers(o.source),
                           !.text = authority[o.source]]
      BY <1>1, <1>7 DEF Answer, Become
    <3>5. QED
      BY <3>3, <3>4
  <2>4. Headers(o.source) # Same
    BY <2>1, HeadersMade, MarkersAssumption DEF IInv
  <2>5. /\ n.pc = "answered" /\ n.source = o.source /\ n.saved = o.saved /\ n.due = o.due
        /\ \/ /\ n.reply = Same
              /\ \/ o.saved.etag = authority[o.source]
                 \/ /\ o.source \notin Tagged
                    /\ o.saved.modified # 0 /\ authority[o.source].time <= o.saved.modified
           \/ /\ n.reply = Headers(o.source) /\ n.reply # Same
              /\ n.text = authority[o.source]
    BY <1>1, <2>3, <2>4 DEF Invocations
  <2>6. cache = Absent \/ metadata = o.saved
    BY <1>1, <2>1 DEF Informed
  <2>7. o.due \in Nat /\ authority[o.source].time \in Nat /\ o.saved.modified \in Nat
    BY <1>1, <2>2, BoundsAssumption, RecordTypes DEF Invocations, Metadata, Times
  <2>8. n.reply = Same => Confirmed(n)
    BY <2>1, <2>2, <2>5, <2>7 DEF Confirmed, OfItsAuthority, Remotes
  <2>9. n.reply # Same =>
          /\ OfItsAuthority(n, n.text)
          /\ n.text.time <= authority[n.text.source].time
          /\ \A t \in cached : t.source = n.text.source => t.time <= n.text.time
    BY <1>1, <2>2, <2>5, <2>7 DEF OfItsAuthority, CachedOnceHeld
  <2>10. QED
    BY <1>2, <2>5, <2>6, <2>8, <2>9 DEF Informed, Installing, Confirmed, OfItsAuthority
<1>8. CASE NotModified(p) /\ Use(p, "current")
  <2>1. /\ o.pc = "answered" /\ o.reply = Same /\ ValidCache
        /\ n.pc = "load" /\ n.status = "current" /\ n.source = o.source /\ n.due = o.due
    BY <1>1, <1>8, UseFields DEF NotModified, At, RaiseOSError, Finish, Become, Idle
  <2>2. cache # Absent /\ metadata = o.saved /\ Confirmed(o)
    BY <1>1, <2>1 DEF Informed, ValidCache
  <2>3. ~unvouched /\ o.saved.etag \in Texts => cache = o.saved.etag
    BY <1>1, <2>2, TagNamesCache
  <2>4. ~unvouched /\ o.source \in Dated /\ OtherDated(o.source) = {} /\ o.saved.modified # 0
          => cache.source = o.source /\ cache.time = o.saved.modified
    BY <1>1, <2>2, DateNamesCache
  <2>5. o.due \in Nat /\ o.saved.modified \in Nat
    BY <1>1, BoundsAssumption DEF Invocations, Metadata
  <2>6. Unanswerable(o) \/ OfItsAuthority(o, cache)
    BY <2>2, <2>3, <2>4, <2>5 DEF Confirmed, OfItsAuthority, Unanswerable
  <2>7. QED
    BY <1>2, <1>3, <2>1, <2>6 DEF Informed, Installing, Unanswerable, OfItsAuthority
<1>9. CASE Respond(p) /\ UpToDate(p) /\ Use(p, "current")
  <2>1. /\ o.pc = "answered" /\ o.reply # Same
        /\ ValidCache /\ RemoteIsNotNewer(o.saved, o.reply)
        /\ n.pc = "load" /\ n.status = "current" /\ n.source = o.source /\ n.due = o.due
    BY <1>1, <1>9, UseFields DEF Respond, At, UpToDate
  <2>2. cache # Absent /\ metadata = o.saved
    BY <1>1, <2>1 DEF Informed, ValidCache
  <2>3. /\ o.text \in Texts /\ o.reply \in Metadata /\ MadeOf(o.reply, o.text)
        /\ OfItsAuthority(o, o.text)
    BY <1>1, <2>1 DEF Sound, Informed, Installing
  <2>4. /\ o.due \in Nat /\ o.text.time \in Nat /\ o.text # Absent
        /\ o.saved.modified \in Nat /\ o.reply.modified \in Nat
    BY <1>1, <2>3, BoundsAssumption, RecordTypes, MarkersAssumption
       DEF Invocations, Metadata, Times
  <2>5. CASE o.reply.etag # Absent /\ o.reply.etag = o.saved.etag
    <3>1. o.saved.etag = o.text
      BY <2>3, <2>5 DEF MadeOf
    <3>2. ~unvouched => cache = o.text
      BY <1>1, <2>2, <2>3, <3>1, TagNamesCache
    <3>3. QED
      BY <1>2, <1>3, <2>1, <2>3, <3>2 DEF Informed, Installing, OfItsAuthority, Unanswerable
  <2>6. CASE /\ o.reply.modified # 0 /\ o.saved.modified # 0
             /\ o.reply.modified <= o.saved.modified
    <3>1. o.source \in Dated /\ o.reply.modified = o.text.time
      BY <2>3, <2>6 DEF MadeOf, OfItsAuthority
    <3>2. ~unvouched /\ OtherDated(o.source) = {} =>
            cache.source = o.source /\ cache.time = o.saved.modified
      BY <1>1, <2>2, <2>6, <3>1, DateNamesCache
    <3>3. Unanswerable(o) \/ OfItsAuthority(o, cache)
      BY <2>3, <2>4, <2>6, <3>1, <3>2 DEF Unanswerable, OfItsAuthority
    <3>4. QED
      BY <1>2, <1>3, <2>1, <3>3 DEF Informed, Installing, Unanswerable, OfItsAuthority
  <2>7. QED
    BY <2>1, <2>4, <2>5, <2>6, NotNewerByDate DEF RemoteIsNotNewer
<1>10. CASE Respond(p) /\ Goto(p, "writeCache")
  <2>1. /\ o.pc = "answered" /\ o.reply # Same
        /\ n.pc = "writeCache" /\ n.source = o.source /\ n.due = o.due
        /\ n.text = o.text
    BY <1>1, <1>10, GotoFields DEF Respond, At
  <2>2. /\ OfItsAuthority(o, o.text) /\ o.text.time <= authority[o.text.source].time
        /\ \A t \in cached : t.source = o.text.source => t.time <= o.text.time
    BY <1>1, <2>1 DEF Informed, Installing
  <2>3. QED
    BY <1>2, <2>1, <2>2 DEF Informed, Installing, OfItsAuthority
<1>11. CASE BeginLocal(p)
  <2>1. PICK s \in Locals :
          LET now == authority[s].time
              begun == [Idle("none") EXCEPT
                          !.pc = "read", !.source = s, !.due = now,
                          !.reply = [NoMetadata EXCEPT !.source = s, !.mtime = now]]
          IN  \/ /\ LocalCacheIsCurrent(metadata, s, now)
                 /\ Become(p, [begun EXCEPT !.pc = "load", !.reply = Absent,
                                            !.status = "current"])
              \/ Become(p, begun)
    BY <1>11 DEF BeginLocal
  <2>2. /\ n.source = s /\ n.due = authority[s].time
        /\ \/ n.pc = "load" /\ LocalCacheIsCurrent(metadata, s, authority[s].time)
           \/ n.pc = "read"
    BY <1>1, <2>1 DEF Become, Idle
  <2>3. s \in Sources /\ authority[s].time \in Nat /\ authority[s].time <= authority[s].time
    BY RecordTypes DEF IInv, TypeOK, Sources, Times
  <2>4. CASE n.pc = "read"
    BY <1>2, <2>2, <2>3, <2>4 DEF Informed, Installing
  <2>5. CASE n.pc = "load" /\ LocalCacheIsCurrent(metadata, s, authority[s].time)
    <3>1. /\ cache # Absent /\ metadata.source = s /\ metadata.mtime # 0
          /\ authority[s].time <= metadata.mtime
      BY <2>5 DEF LocalCacheIsCurrent, ValidCache
    <3>2. ~unvouched => cache.source = s /\ cache.time >= metadata.mtime
      BY <1>1, <3>1, FileTimeNamesCache
    <3>3. cache.time \in Nat /\ metadata.mtime \in Nat
      BY <3>1, RecordTypes, BoundsAssumption DEF IInv, TypeOK, Metadata, Times
    <3>4. unvouched \/ OfItsAuthority(n, cache)
      BY <2>2, <2>3, <3>1, <3>2, <3>3 DEF OfItsAuthority
    <3>5. QED
      BY <1>2, <1>3, <2>5, <3>4 DEF Informed, Installing, OfItsAuthority, Unanswerable
  <2>6. QED
    BY <2>2, <2>4, <2>5
<1>12. CASE ReadLocal(p) /\ n.pc # "idle"
  <2>1. o.pc = "read" /\ o.source \in Locals /\ o.source \in Sources
    BY <1>1, <1>12 DEF ReadLocal, At, Sound, Sources
  <2>2. n = [o EXCEPT !.pc = "writeCache", !.text = authority[o.source]]
    BY <1>1, <1>12 DEF ReadLocal, Finish, Become, Idle
  <2>3. /\ n.pc = "writeCache" /\ n.source = o.source /\ n.due = o.due
        /\ n.text = authority[o.source]
    BY <1>1, <2>2 DEF Invocations
  <2>4. /\ authority[o.source].source = o.source /\ o.due <= authority[o.source].time
        /\ authority[o.source].time \in Nat /\ o.due \in Nat
    BY <1>1, <2>1, RecordTypes, BoundsAssumption
       DEF Informed, IInv, TypeOK, AuthoritySound, Invocations, Times
  <2>5. /\ OfItsAuthority(n, n.text)
        /\ n.text.time <= authority[n.text.source].time
        /\ \A t \in cached : t.source = n.text.source => t.time <= n.text.time
    BY <1>1, <2>3, <2>4 DEF OfItsAuthority, CachedOnceHeld
  <2>6. QED
    BY <1>2, <2>3, <2>5 DEF Informed, Installing, OfItsAuthority
<1>13. CASE LoadDictionary(p) /\ n.pc # "idle"
  <2>1. /\ o.pc = "load" /\ ValidCache
        /\ n = [o EXCEPT !.pc = "writeConfig", !.text = cache]
    BY <1>1, <1>13 DEF LoadDictionary, At, Finish, Become, Idle
  <2>2. /\ o.pc = "load" /\ ValidCache
        /\ n.pc = "writeConfig" /\ n.source = o.source /\ n.due = o.due
        /\ n.status = o.status /\ n.text = cache
    BY <1>1, <2>1 DEF Invocations
  <2>3. n.status \in Reported => Unanswerable(o) \/ OfItsAuthority(o, cache)
    BY <1>1, <2>2 DEF Informed, ValidCache
  <2>4. QED
    BY <1>2, <1>3, <2>2, <2>3 DEF Informed, Installing, Unanswerable, OfItsAuthority
<1>14. CASE \/ BeginOffline(p) \/ Unavailable(p) \/ BodyLost(p) \/ WriteFails(p)
            \/ WriteConfig(p) \/ Crash(p)
  <2>1. \/ \E r : Finish(p, r)
        \/ \E r \in {"offline-cache", "stale-cache"} : Use(p, r)
    BY <1>14 DEF BeginOffline, Unavailable, BodyLost, WriteFails, WriteConfig, Crash,
                 StaleCacheOrRaise, RaiseOSError
  <2>2. (\E r : Finish(p, r)) => n.pc = "idle"
    BY <1>1 DEF Finish, Become, Idle
  <2>3. QED
    BY <1>1, <1>4, <1>5, <2>1, <2>2, UseFields DEF Reported
<1>15. CASE NotModified(p)
  <2>1. Use(p, "current") \/ \E r : Finish(p, r)
    BY <1>15 DEF NotModified, RaiseOSError
  <2>2. (\E r : Finish(p, r)) => n.pc = "idle"
    BY <1>1 DEF Finish, Become, Idle
  <2>3. QED
    BY <1>4, <1>8, <1>15, <2>1, <2>2
<1>16. CASE Respond(p)
  <2>1. \/ UpToDate(p) /\ Use(p, "current")
        \/ Goto(p, "writeCache")
        \/ \E r : Finish(p, r)
    BY <1>16 DEF Respond
  <2>2. (\E r : Finish(p, r)) => n.pc = "idle"
    BY <1>1 DEF Finish, Become, Idle
  <2>3. QED
    BY <1>4, <1>9, <1>10, <1>16, <2>1, <2>2
<1>17. QED
  BY <1>4, <1>6, <1>7, <1>11, <1>12, <1>13, <1>14, <1>15, <1>16 DEF Invocation

\* The two steps that write what the refresh goes by.
LEMMA WriteCacheSolo ==
    ASSUME IInv, SoloInv, NEW p \in Procs, WriteCache(p)
    PROVE  CachedOnceHeld' /\ MetadataVouchesForCache' /\ Informed(proc[p])'
<1> DEFINE o == proc[p]
<1>1. /\ o \in Invocations /\ o.pc = "writeCache" /\ Installing(o)
      /\ Sound(o, authority, cached) /\ Informed(o) /\ TypeOK
  BY DEF IInv, TypeOK, SoloInv, WriteCache, At, Installing
<1>2. /\ o.text \in Texts /\ OfItsAuthority(o, o.text)
      /\ o.text.time <= authority[o.text.source].time
      /\ \A t \in cached : t.source = o.text.source => t.time <= o.text.time
  BY <1>1 DEF Sound, Informed
<1>3. /\ cache' = o.text /\ cached' = cached \cup {o.text} /\ unvouched' = TRUE
      /\ UNCHANGED <<authority, metadata>> /\ Goto(p, "writeMetadata")
  BY DEF WriteCache, outside
<1>4. CachedOnceHeld'
  BY <1>2, <1>3 DEF SoloInv, CachedOnceHeld
<1>5. MetadataVouchesForCache'
  <2> SUFFICES ASSUME metadata # NoMetadata, metadata.source = o.text.source
               PROVE  \E t \in VouchedFor(metadata) : t.time <= o.text.time
    BY <1>3 DEF MetadataVouchesForCache, VouchedFor
  <2>1. PICK t \in cached : MadeOf(metadata, t)
    BY DEF IInv, MetadataMade
  <2>2. t \in VouchedFor(metadata) /\ t.source = o.text.source
    BY <2>1, MadeVouched DEF IInv, TypeOK, MadeOf
  <2>3. QED
    BY <1>2, <2>1, <2>2
<1>6. /\ proc'[p].pc = "writeMetadata" /\ proc'[p].text = o.text
      /\ proc'[p].source = o.source /\ proc'[p].due = o.due
  BY <1>1, <1>3, GotoFields
<1>7. Informed(proc[p])'
  BY <1>2, <1>3, <1>6 DEF Informed, Installing, OfItsAuthority
<1>8. QED
  BY <1>4, <1>5, <1>7

LEMMA WriteMetadataSolo ==
    ASSUME IInv, SoloInv, NEW p \in Procs, WriteMetadata(p)
    PROVE  CachedOnceHeld' /\ MetadataVouchesForCache' /\ Informed(proc[p])'
<1> DEFINE o == proc[p]
<1>1. /\ o \in Invocations /\ o.pc = "writeMetadata" /\ Installing(o)
      /\ Sound(o, authority, cached) /\ Informed(o) /\ TypeOK
  BY DEF IInv, TypeOK, SoloInv, WriteMetadata, At, Installing
<1>2. /\ o.text \in Texts /\ OfItsAuthority(o, o.text) /\ cache \in {Absent, o.text}
      /\ o.reply \in Metadata /\ MadeOf(o.reply, o.text)
  BY <1>1 DEF Sound, Informed
<1>3. /\ metadata' = o.reply /\ UNCHANGED <<authority, cache, cached>>
      /\ Use(p, "refreshed")
  BY DEF WriteMetadata, outside
<1>4. CachedOnceHeld'
  BY <1>3 DEF SoloInv, CachedOnceHeld
<1>5. MetadataVouchesForCache'
  <2>1. o.text \in VouchedFor(o.reply)
    BY <1>2, MadeVouched
  <2>2. QED
    BY <1>2, <1>3, <2>1 DEF MetadataVouchesForCache, VouchedFor
<1>6. /\ proc'[p].pc = "load" /\ proc'[p].status = "refreshed"
      /\ proc'[p].source = o.source /\ proc'[p].due = o.due
  BY <1>1, <1>3, UseFields
<1>7. Informed(proc[p])'
  BY <1>2, <1>3, <1>6 DEF Informed, Installing, OfItsAuthority
<1>8. QED
  BY <1>4, <1>5, <1>7

\* What the invocation knows is not spoilt by a publication or a clean.
LEMMA InformedLater ==
    ASSUME IInv, NEW i \in Invocations, Sound(i, authority, cached), Informed(i),
           \A s \in Sources : /\ authority[s].time \in Nat /\ authority'[s].time \in Nat
                              /\ authority[s].time <= authority'[s].time,
           cache' = Absent \/ (cache' = cache /\ metadata' = metadata),
           UNCHANGED history
    PROVE  Informed(i)'
<1>1. UNCHANGED <<cached, unvouched>>
  BY DEF history
<1>2. Unanswerable(i)' <=> Unanswerable(i)
  BY <1>1 DEF Unanswerable, OtherDated
<1>3. i.due \in Nat
  BY BoundsAssumption DEF Invocations
<1>4. i.pc \in {"waiting", "read"} => i.due <= authority'[i.source].time
  BY <1>3 DEF Informed, Sound, Sources
<1>5. Installing(i) /\ i.pc # "writeMetadata" =>
        i.text.time <= authority'[i.text.source].time
  <2>1. Installing(i) => i.text.source \in Sources /\ i.text.time \in Nat
    BY RecordTypes DEF Sound, Times
  <2>2. QED
    BY <2>1 DEF Informed
<1>6. i.pc = "answered" /\ i.reply = Same => Confirmed(i)'
  BY DEF Informed, Confirmed, OfItsAuthority
<1>7. Installing(i)' <=> Installing(i)
  BY DEF Installing
<1>8. QED
  BY <1>1, <1>2, <1>4, <1>5, <1>6, <1>7 DEF Informed, OfItsAuthority

LEMMA InitSolo == Init => SoloInv
<1> SUFFICES ASSUME Init PROVE SoloInv
  OBVIOUS
<1>1. \A p \in Procs : proc[p].pc = "idle"
  BY DEF Init, Idle
<1>2. QED
  BY <1>1 DEF Init, SoloInv, CachedOnceHeld, MetadataVouchesForCache, Informed, Installing

LEMMA StepSolo == NoOverlap /\ IInv /\ IInv' /\ SoloInv /\ [Next]_vars => SoloInv'
<1> SUFFICES ASSUME NoOverlap, IInv, IInv', SoloInv, [Next]_vars PROVE SoloInv'
  OBVIOUS
<1>0. /\ TypeOK /\ CachedOnceHeld /\ MetadataVouchesForCache
      /\ proc \in [Procs -> Invocations] /\ cached \subseteq Texts
      /\ \A t \in Texts : t.source \in Sources /\ t.time \in Nat
      /\ \A s \in Sources : authority[s].time \in Nat /\ authority'[s].time \in Nat
  BY RecordTypes DEF IInv, TypeOK, SoloInv, Times
<1>1. CASE \E p \in Procs : Invocation(p)
  <2>1. PICK p \in Procs : Invocation(p)
    BY <1>1
  <2>2. CASE WriteCache(p)
    BY <2>2, WriteCacheSolo DEF NoOverlap, SoloInv
  <2>3. CASE WriteMetadata(p)
    BY <2>3, WriteMetadataSolo DEF NoOverlap, SoloInv
  <2>4. CASE ~WriteCache(p) /\ ~WriteMetadata(p)
    <3>1. UNCHANGED <<outside, cache, metadata, history>>
      BY <2>1, <2>4
         DEF Invocation, BeginOffline, BeginRemote, BeginLocal, Answer, Unavailable,
             NotModified, Respond, BodyLost, ReadLocal, WriteFails, LoadDictionary,
             WriteConfig, Crash, files
    <3>2. Informed(proc[p])'
      BY <2>1, <2>4, <3>1, DecisionInformed
    <3>3. CachedOnceHeld' /\ MetadataVouchesForCache'
      BY <1>0, <3>1
         DEF outside, history, CachedOnceHeld, MetadataVouchesForCache, VouchedFor
    <3>4. QED
      BY <3>2, <3>3 DEF NoOverlap, SoloInv
  <2>5. QED
    BY <2>2, <2>3, <2>4
<1>2. CASE Publish \/ CleanCheckout
  <2>1. /\ \A s \in Sources : authority[s].time <= authority'[s].time
        /\ UNCHANGED <<history, proc>>
        /\ \/ cache' = Absent
           \/ cache' = cache /\ metadata' = metadata
    <3>1. CASE Publish
      BY <3>1, PublishLater DEF IInv, Publish, files
    <3>2. CASE CleanCheckout
      BY <1>0, <3>2 DEF CleanCheckout, outside
    <3>3. QED
      BY <1>2, <3>1, <3>2
  <2>2. UNCHANGED <<cached, unvouched>>
    BY <2>1 DEF history
  <2>3. CachedOnceHeld'
    <3> SUFFICES ASSUME NEW t \in cached PROVE t.time <= authority'[t.source].time
      BY <2>2 DEF CachedOnceHeld
    <3>1. t \in Texts /\ t.time <= authority[t.source].time
      BY <1>0 DEF CachedOnceHeld
    <3>2. QED
      BY <1>0, <2>1, <3>1
  <2>4. MetadataVouchesForCache'
    BY <1>0, <2>1, <2>2 DEF MetadataVouchesForCache, VouchedFor
  <2>5. ASSUME NEW q \in Procs PROVE Informed(proc[q])'
    <3>1. PICK i \in Invocations : i = proc[q] /\ i = proc'[q]
      BY <1>0, <2>1
    <3>2. Sound(i, authority, cached) /\ Informed(i)
      BY <3>1 DEF IInv, SoloInv
    <3>3. Informed(i)'
      BY <1>0, <2>1, <3>2, InformedLater
    <3>4. QED
      BY <3>1, <3>3
  <2>6. QED
    BY <2>3, <2>4, <2>5 DEF SoloInv
<1>3. CASE UNCHANGED vars
  <2>1. /\ UNCHANGED history
        /\ \A s \in Sources : authority[s].time <= authority'[s].time
        /\ UNCHANGED <<authority, cache, metadata, proc, cached, unvouched>>
    BY <1>0, <1>3 DEF vars, history
  <2>2. CachedOnceHeld' /\ MetadataVouchesForCache'
    BY <1>0, <2>1 DEF CachedOnceHeld, MetadataVouchesForCache, VouchedFor
  <2>3. ASSUME NEW q \in Procs PROVE Informed(proc[q])'
    <3>1. PICK i \in Invocations : i = proc[q] /\ i = proc'[q]
      BY <1>0, <2>1
    <3>2. Sound(i, authority, cached) /\ Informed(i)
      BY <3>1 DEF IInv, SoloInv
    <3>3. Informed(i)'
      BY <1>0, <2>1, <3>2, InformedLater
    <3>4. QED
      BY <3>1, <3>3
  <2>4. QED
    BY <2>2, <2>3 DEF SoloInv
<1>4. QED
  BY <1>1, <1>2, <1>3 DEF Next

LEMMA AlwaysSolo == NoOverlap /\ Spec => [](IInv /\ SoloInv)
<1>1. NoOverlap /\ IInv /\ SoloInv /\ [Next]_vars => (IInv /\ SoloInv)'
  BY StepIInv, StepSolo
<1>2. CASE NoOverlap
  <2>1. IInv /\ SoloInv /\ [Next]_vars => (IInv /\ SoloInv)'
    BY <1>1, <1>2
  <2>2. QED
    BY InitIInv, InitSolo, <2>1, PTL DEF Spec
<1>3. QED
  BY <1>2

\* Where one process runs the helper, the metadata vouches for the text in the
\* cache, or for one of its authority's that is no newer when its own writing
\* is missing, for any number of crashes, failures, publications and cleans.
THEOREM VouchingSafety == NoOverlap /\ Spec => []MetadataVouchesForCache
<1>1. IInv /\ SoloInv => MetadataVouchesForCache
  BY DEF SoloInv
<1>2. QED
  BY AlwaysSolo, <1>1, PTL

\* Where one process runs the helper, a configuration that is reported to come
\* from a refreshed or current cache comes from what the authority held when
\* the invocation began, or newer.
THEOREM FreshnessSafety == NoOverlap /\ Spec => ReportedConfigIsFresh
<1>1. ASSUME NoOverlap, IInv, SoloInv, Next, NEW p \in Procs,
             At(p, "writeConfig"), proc'[p].pc = "idle", proc'[p].status \in Reported,
             ~Unanswerable(proc[p])
      PROVE  config'.source = proc[p].source /\ config'.time >= proc[p].due
  <2>0. proc \in [Procs -> Invocations]
    BY <1>1 DEF IInv, TypeOK
  <2>1. ~(Publish \/ CleanCheckout)
    BY <1>1 DEF Publish, CleanCheckout, At
  <2>2. Invocation(p)
    BY <1>1, <2>1 DEF Next, NoOverlap
  <2>3. ~Crash(p)
    <3>1. SUFFICES ASSUME Crash(p) PROVE proc'[p].status = "killed"
      BY <1>1 DEF Reported
    <3>2. QED
      BY <2>0, <3>1 DEF Crash, Finish, Become, Idle
  <2>4. WriteConfig(p)
    BY <1>1, <2>2, <2>3 DEF Invocation, At, BeginOffline, BeginRemote, BeginLocal, Answer,
                            Unavailable, NotModified, Respond, BodyLost, ReadLocal,
                            WriteCache, WriteMetadata, WriteFails, LoadDictionary
  <2>5. config' = proc[p].text /\ proc[p].status = proc'[p].status
    BY <2>0, <2>4 DEF WriteConfig, Finish, Become, Idle
  <2>6. OfItsAuthority(proc[p], proc[p].text)
    BY <1>1, <2>5 DEF SoloInv, Informed, At
  <2>7. QED
    BY <2>5, <2>6 DEF OfItsAuthority
<1>2. CASE NoOverlap
  <2>1. IInv /\ SoloInv /\ [Next]_vars =>
          [\A p \in Procs :
              /\ At(p, "writeConfig") /\ proc'[p].pc = "idle"
              /\ proc'[p].status \in {"refreshed", "current"}
              /\ ~unvouched
              /\ proc[p].source \in Dated => OtherDated(proc[p].source) = {}
              => config'.source = proc[p].source /\ config'.time >= proc[p].due]_vars
    BY <1>1, <1>2 DEF Reported, Unanswerable
  <2>2. Spec => []([Next]_vars)
    BY PTL DEF Spec
  <2>3. QED
    BY <1>2, AlwaysSolo, <2>1, <2>2, PTL DEF ReportedConfigIsFresh, Spec
<1>3. QED
  BY <1>2
=============================================================================
