----------------------------- MODULE TyposCache -----------------------------
(* The spelling policy helper (scripts/generate_typos_config.py over        *)
(* scripts/typos_rollout.py).  An invocation refreshes an untracked cache   *)
(* of a shared dictionary and its freshness metadata from one authority,    *)
(* then generates the tracked typos.toml from the cache.  Cache, metadata   *)
(* and configuration are three files, each replaced atomically; invocations *)
(* share them and may overlap, fail or be killed.                           *)
EXTENDS Naturals

CONSTANTS
    Procs,      \* processes that run the helper, again and again
    Tagged,     \* HTTPS authorities that answer with an ETag
    Dated,      \* HTTPS authorities that answer with a Last-Modified
    Garbled,    \* those of them whose dates do not parse
    Locals,     \* authorities that are files of this machine
    MaxTime,    \* bound: publications, over all authorities
    Malformed,  \* times at which what is published is not a dictionary
    CleanAnytime, \* files may be deleted one by one and while the helper runs
    Same,       \* the answer 304: what the request named still holds
    Absent      \* a file that is not there, a header that is not sent

ASSUME BoundsAssumption == MaxTime \in Nat \ {0} /\ CleanAnytime \in BOOLEAN
ASSUME GarbledAssumption == Garbled \subseteq Dated

Remotes == Tagged \cup Dated
Sources == Remotes \cup Locals
Times == 1..MaxTime

\* What an authority held at a time; the time dates it as well.
Texts == [source : Sources, time : Times]

\* Metadata of a missing, or not yet written, file reads as {}: no validator.
NoMetadata == [source |-> Absent, etag |-> Absent, modified |-> 0, mtime |-> 0]
Metadata == [source : Sources \cup {Absent}, etag : Texts \cup {Absent},
             modified : 0..MaxTime, mtime : 0..MaxTime]

ASSUME MarkersAssumption ==
    /\ Absent \notin Sources \cup Texts \cup Metadata
    /\ Same \notin Metadata \cup {Absent}

VARIABLES
    authority,  \* what each authority holds now
    clock,      \* the time of the last publication
    cache,      \* .typos-oxendict-base.toml
    metadata,   \* .typos-oxendict-base.json
    config,     \* typos.toml: the text it was generated from, or as committed
    proc,       \* the invocation each process is at, or its last one's status
    cached,     \* (auxiliary) every text the cache has held
    unvouched   \* (auxiliary) no metadata was written since the cache was

vars == <<authority, clock, cache, metadata, config, proc, cached, unvouched>>
outside == <<authority, clock>>
history == <<cached, unvouched>>
files == <<cache, metadata, config, history>>

\* source: the authority of the invocation; saved: the metadata it began with;
\* reply: what it was answered; text: the dictionary it holds in memory; due:
\* (auxiliary) the date of what the authority held when it began.
Idle(result) ==
    [pc |-> "idle", source |-> Absent, saved |-> NoMetadata, reply |-> Absent,
     text |-> Absent, status |-> result, due |-> 0]

Init ==
    /\ authority = [s \in Sources |-> [source |-> s, time |-> 1]]
    /\ clock = 1
    /\ cache = Absent
    /\ metadata = NoMetadata
    /\ config = Absent
    /\ proc = [p \in Procs |-> Idle("none")]
    /\ cached = {}
    /\ unvouched = FALSE

(* Freshness ****************************************************************)

\* A dictionary parses and has the schema; the cache is read again to ask.
WellFormed(t) == t.time \notin Malformed
ValidCache == cache # Absent /\ WellFormed(cache)

\* Dates that cannot be compared are the same or not.
DateIsNotNewer(old, new) ==
    /\ new.modified # 0 /\ old.modified # 0
    /\ IF {old.source, new.source} \cap Garbled = {}
       THEN new.modified <= old.modified
       ELSE new.modified = old.modified /\ {old.source, new.source} \subseteq Garbled

\* Mutants: any tag will do; the dates compared the wrong way round.
AnyTagNotNewer(old, new) ==
    \/ new.etag # Absent /\ old.etag # Absent
    \/ DateIsNotNewer(old, new)
OlderNotNewer(old, new) ==
    \/ new.etag # Absent /\ new.etag = old.etag
    \/ new.modified # 0 /\ old.modified # 0 /\ old.modified <= new.modified

\* Equal tags, or a date no later than the one saved.
RemoteIsNotNewer(old, new) ==
    \/ new.etag # Absent /\ new.etag = old.etag
    \/ DateIsNotNewer(old, new)

LocalCacheIsCurrent(old, s, mtime) ==
    /\ ValidCache
    /\ old.source = s
    /\ old.mtime # 0
    /\ mtime <= old.mtime

\* The validators an HTTPS authority answers with.
Headers(s) ==
    [source |-> s,
     etag |-> IF s \in Tagged THEN authority[s] ELSE Absent,
     modified |-> IF s \in Dated THEN authority[s].time ELSE 0,
     mtime |-> 0]

(* An invocation ************************************************************)

At(p, label) == proc[p].pc = label
Become(p, state) == proc' = [proc EXCEPT ![p] = state]
Goto(p, label) == Become(p, [proc[p] EXCEPT !.pc = label])
Finish(p, result) == Become(p, Idle(result))

\* A refresh that leaves a usable cache goes on to generate from it.
Use(p, result) ==
    Become(p, [Idle(result) EXCEPT
        !.pc = "load", !.source = proc[p].source, !.due = proc[p].due])

\* main falls back to the tracked configuration, which it leaves alone, when
\* the refresh of an HTTPS authority raises an OSError; it raises it again
\* where that file is missing or no TOML, as whoever edits it may leave it.
RaiseOSError(p, s) ==
    \/ Finish(p, "failed")
    \/ s \in Remotes /\ Finish(p, "tracked-config")

StaleCacheOrRaise(p, s) == IF ValidCache THEN Use(p, "stale-cache") ELSE RaiseOSError(p, s)

BeginOffline(p) ==
    /\ At(p, "idle")
    /\ \E s \in Sources :
        IF ValidCache THEN Use(p, "offline-cache") ELSE RaiseOSError(p, s)
    /\ UNCHANGED <<outside, files>>

\* The metadata is read and the conditional request sent.
BeginRemote(p) ==
    /\ At(p, "idle")
    /\ \E s \in Remotes :
        Become(p, [Idle("none") EXCEPT !.pc = "waiting", !.source = s, !.saved = metadata,
                                   !.due = authority[s].time])
    /\ UNCHANGED <<outside, files>>

\* A server answers 304 to validators that still hold, or 200 to any request.
Answer(p) ==
    LET s == proc[p].source
        old == proc[p].saved
        holds == IF s \in Tagged
                 THEN old.etag = authority[s]
                 ELSE DateIsNotNewer(old, Headers(s))
    IN  /\ At(p, "waiting")
        /\ \/ /\ holds
              /\ Become(p, [proc[p] EXCEPT !.pc = "answered", !.reply = Same])
           \/ Become(p, [proc[p] EXCEPT !.pc = "answered", !.reply = Headers(s),
                                        !.text = authority[s]])
        /\ UNCHANGED <<outside, files>>

\* No route, 30 seconds without an answer, or an error status; an answer that
\* is no HTTP raises what is not caught.
Unavailable(p) ==
    /\ At(p, "waiting")
    /\ StaleCacheOrRaise(p, proc[p].source) \/ Finish(p, "failed")
    /\ UNCHANGED <<outside, files>>

\* Mutant: a 304 renews the metadata, with the answer it was.
NotModifiedRenews(p) ==
    /\ At(p, "answered")
    /\ proc[p].reply = Same
    /\ IF ValidCache THEN Goto(p, "writeMetadata") ELSE RaiseOSError(p, proc[p].source)
    /\ UNCHANGED <<outside, files>>

\* urlopen raises a 304 as an HTTPError.
NotModified(p) ==
    /\ At(p, "answered")
    /\ proc[p].reply = Same
    /\ IF ValidCache THEN Use(p, "current") ELSE RaiseOSError(p, proc[p].source)
    /\ UNCHANGED <<outside, files>>

\* A 200 is first compared with the metadata read before the request.
UpToDate(p) == ValidCache /\ RemoteIsNotNewer(proc[p].saved, proc[p].reply)

\* Mutants: the body is written unread; the metadata is written first.
RespondUnvalidated(p) ==
    /\ At(p, "answered")
    /\ proc[p].reply # Same
    /\ IF UpToDate(p) THEN Use(p, "current") ELSE Goto(p, "writeCache")
    /\ UNCHANGED <<outside, files>>

RespondMetadataFirst(p) ==
    /\ At(p, "answered")
    /\ proc[p].reply # Same
    /\ IF UpToDate(p) THEN Use(p, "current") /\ UNCHANGED metadata
       ELSE IF WellFormed(proc[p].text)
       THEN Goto(p, "writeCache") /\ metadata' = proc[p].reply
       ELSE Finish(p, "failed") /\ UNCHANGED metadata
    /\ UNCHANGED <<outside, cache, config, history>>

Respond(p) ==
    /\ At(p, "answered")
    /\ proc[p].reply # Same
    /\ IF UpToDate(p) THEN Use(p, "current")
       ELSE IF WellFormed(proc[p].text) THEN Goto(p, "writeCache")
       ELSE Finish(p, "failed")
    /\ UNCHANGED <<outside, files>>

\* Mutant: the headers are saved before the body is read.
BodyLostHeadersKept(p) ==
    /\ At(p, "answered")
    /\ proc[p].reply # Same
    /\ ~UpToDate(p)
    /\ metadata' = proc[p].reply
    /\ StaleCacheOrRaise(p, proc[p].source) \/ Finish(p, "failed")
    /\ UNCHANGED <<outside, cache, config, history>>

\* The body is read only when it is wanted.  A connection that breaks is an
\* OSError; a body that ends before the length it declared (bound: it declares
\* one) raises IncompleteRead, which is none, and is not caught.
BodyLost(p) ==
    /\ At(p, "answered")
    /\ proc[p].reply # Same
    /\ ~UpToDate(p)
    /\ StaleCacheOrRaise(p, proc[p].source) \/ Finish(p, "failed")
    /\ UNCHANGED <<outside, files>>

\* A local authority is dated first, and read only when newer or another.
BeginLocal(p) ==
    /\ At(p, "idle")
    /\ \E s \in Locals :
        LET now == authority[s].time
            begun == [Idle("none") EXCEPT
                        !.pc = "read", !.source = s, !.due = now,
                        !.reply = [NoMetadata EXCEPT !.source = s, !.mtime = now]]
        IN  Become(p, IF LocalCacheIsCurrent(metadata, s, now)
                      THEN [begun EXCEPT !.pc = "load", !.reply = Absent,
                                         !.status = "current"]
                      ELSE begun)
    /\ UNCHANGED <<outside, files>>

ReadLocal(p) ==
    LET read == authority[proc[p].source]
    IN  /\ At(p, "read")
        /\ IF WellFormed(read)
           THEN Become(p, [proc[p] EXCEPT !.pc = "writeCache", !.text = read])
           ELSE Finish(p, "failed")
        /\ UNCHANGED <<outside, files>>

\* The dictionary goes first, the metadata that vouches for it second.
WriteCache(p) ==
    /\ At(p, "writeCache")
    /\ cache' = proc[p].text
    /\ cached' = cached \cup {proc[p].text}
    /\ unvouched' = TRUE
    /\ Goto(p, "writeMetadata")
    /\ UNCHANGED <<outside, metadata, config>>

WriteMetadata(p) ==
    /\ At(p, "writeMetadata")
    /\ metadata' = proc[p].reply
    /\ unvouched' = FALSE
    /\ Use(p, "refreshed")
    /\ UNCHANGED <<outside, cache, config, cached>>

\* A full disk.  For an HTTPS authority it is caught like a failed download.
WriteFails(p) ==
    /\ proc[p].pc \in {"writeCache", "writeMetadata"}
    /\ IF proc[p].source \in Remotes THEN StaleCacheOrRaise(p, proc[p].source)
       ELSE Finish(p, "failed")
    /\ UNCHANGED <<outside, files>>

\* The cache is read again, whoever wrote it last; its absence is not caught.
LoadDictionary(p) ==
    /\ At(p, "load")
    /\ IF ValidCache
       THEN Become(p, [proc[p] EXCEPT !.pc = "writeConfig", !.text = cache])
       ELSE Finish(p, "failed")
    /\ UNCHANGED <<outside, files>>

WriteConfig(p) ==
    /\ At(p, "writeConfig")
    /\ config' = proc[p].text
    /\ Finish(p, proc[p].status)
    /\ UNCHANGED <<outside, cache, metadata, history>>

Crash(p) ==
    /\ ~At(p, "idle")
    /\ Finish(p, "killed")
    /\ UNCHANGED <<outside, files>>

(* Around it ****************************************************************)

Publish ==
    /\ clock < MaxTime
    /\ clock' = clock + 1
    /\ \E s \in Sources :
        authority' = [authority EXCEPT ![s] = [source |-> s, time |-> clock + 1]]
    /\ UNCHANGED <<files, proc>>

\* git clean removes both untracked files, and a person may remove just one.
CleanCheckout ==
    /\ cache # Absent
    /\ cache' = Absent
    /\ \/ metadata' = NoMetadata /\ (CleanAnytime \/ \A p \in Procs : At(p, "idle"))
       \/ UNCHANGED metadata /\ CleanAnytime
    /\ UNCHANGED <<outside, config, proc, history>>

Invocation(p) ==
    \/ BeginOffline(p) \/ BeginRemote(p) \/ BeginLocal(p)
    \/ Answer(p) \/ Unavailable(p)
    \/ NotModified(p) \/ Respond(p) \/ BodyLost(p)
    \/ ReadLocal(p) \/ WriteCache(p) \/ WriteMetadata(p) \/ WriteFails(p)
    \/ LoadDictionary(p) \/ WriteConfig(p)
    \/ Crash(p)

Next == (\E p \in Procs : Invocation(p)) \/ Publish \/ CleanCheckout

Spec == Init /\ [][Next]_vars

\* The gate is run again and again, against a network that answers again and
\* again; none of its steps is killed or fails every time.
Fairness ==
    \A p \in Procs :
        /\ SF_vars(BeginRemote(p)) /\ SF_vars(Answer(p))
        /\ SF_vars(NotModified(p)) /\ SF_vars(Respond(p))
        /\ SF_vars(WriteCache(p)) /\ SF_vars(WriteMetadata(p))
        /\ SF_vars(LoadDictionary(p)) /\ SF_vars(WriteConfig(p))

FairSpec == Spec /\ Fairness

(* Properties ***************************************************************)

Invocations ==
    [pc : {"idle", "waiting", "answered", "read", "writeCache", "writeMetadata",
           "load", "writeConfig"},
     source : Sources \cup {Absent}, saved : Metadata,
     reply : Metadata \cup {Absent, Same}, text : Texts \cup {Absent},
     status : {"none", "refreshed", "current", "stale-cache", "offline-cache",
               "tracked-config", "failed", "killed"},
     due : 0..MaxTime]

\* Every variable holds a value of its kind: a cache file is absent or whole,
\* and the metadata is absent or whole, as both are replaced by a rename.
TypeOK ==
    /\ authority \in [Sources -> Texts]
    /\ clock \in Times
    /\ cache \in Texts \cup {Absent}
    /\ metadata \in Metadata
    /\ config \in Texts \cup {Absent}
    /\ proc \in [Procs -> Invocations]
    /\ cached \subseteq Texts
    /\ unvouched \in BOOLEAN

\* What an authority publishes that is not a dictionary reaches neither the
\* cache nor the configuration, however invocations overlap.
MalformedNeverInstalled ==
    \A t \in {cache, config} : t # Absent => WellFormed(t)

\* The text metadata vouches for, as its validators name it.
VouchedFor(m) ==
    {t \in Texts : t.source = m.source /\
        \/ m.etag = t
        \/ m.etag = Absent /\ t.time = m.modified
        \/ m.etag = Absent /\ m.modified = 0 /\ t.time >= m.mtime}

\* Metadata only ever vouches for a text that was written to the cache before
\* it, whoever is killed or overlaps: writing it first would make the next
\* refresh believe a dictionary nobody has.
MetadataFollowsCache ==
    metadata # NoMetadata => VouchedFor(metadata) \cap cached # {}

\* Where invocations do not overlap, the metadata vouches for the very text in
\* the cache, and can name another only since a cache write whose metadata
\* write failed or was killed; even then it is not ahead of a text of its own
\* authority, so the next refresh cannot take an old dictionary for current.
MetadataVouchesForCache ==
    cache # Absent /\ metadata # NoMetadata =>
        \/ cache \in VouchedFor(metadata)
        \/ /\ unvouched
           /\ metadata.source = cache.source =>
                \E t \in VouchedFor(metadata) : t.time <= cache.time

\* The cache never goes back to an older text of the same authority.
CacheNeverRegresses ==
    [][cache # Absent /\ cache' # Absent /\ cache'.source = cache.source =>
          cache'.time >= cache.time]_vars

\* Where invocations do not overlap, one that reports its cache refreshed or
\* current has generated typos.toml from what its own authority held when it
\* began, or newer.  Two things excuse it: a metadata write that has been
\* missing since the cache was replaced, and a second authority that answers
\* with dates, as dates are compared whoever they came from.
OtherDated(s) == {t.source : t \in cached} \cap (Dated \ {s})

ReportedConfigIsFresh ==
    [][\A p \in Procs :
          /\ At(p, "writeConfig") /\ proc'[p].pc = "idle"
          /\ proc'[p].status \in {"refreshed", "current"}
          /\ ~unvouched
          /\ proc[p].source \in Dated => OtherDated(proc[p].source) = {}
          => config'.source = proc[p].source /\ config'.time >= proc[p].due]_vars

\* The tracked configuration stands in only for an authority that gave no
\* answer: not for one that answered 304.
TrackedConfigOnlyWhenUnavailable ==
    [][\A p \in Procs :
          proc[p].reply = Same => proc'[p].status # "tracked-config"]_vars

\* Where one authority is ever asked, what it settles on reaches the cache
\* again and again, whatever was killed, unreachable or cleaned away between
\* invocations.  (With two, a cache written without its metadata is one that
\* the metadata of the other goes on to call current.)
OnlyAsked(s) == \A p \in Procs : proc[p].source \in {s, Absent}

CatchesUp ==
    \A s \in Remotes :
        []OnlyAsked(s) => []<>(cache = authority[s] \/ ~WellFormed(authority[s]))
=============================================================================
