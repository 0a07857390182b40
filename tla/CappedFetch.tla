---------------------------- MODULE CappedFetch ----------------------------
(* The two downloads of the repository's refresh commands: fetchBytes with  *)
(* readCappedResponseBytes (sync-digitalocean-openapi.ts), which counts the *)
(* archive's bytes as they come, and syncSchemaRest (sync.ts), which reads  *)
(* the answer as JSON and writes it over the schema file in place.  The     *)
(* server may break off or stop sending at any time, and may declare a      *)
(* length that is not that of its body; the sync may be killed.             *)
EXTENDS Naturals, Sequences

CONSTANTS
    Cap,        \* maxArchiveBytes
    ChunkSizes, \* bytes a chunk of the body may have
    MaxChunks,  \* bound: chunks a server sends
    Lengths,    \* what content-length may declare
    Undeclared  \* a content-length that is missing or no number

ASSUME SizesAssumption ==
    /\ Cap \in Nat /\ MaxChunks \in Nat
    /\ ChunkSizes \subseteq Nat \ {0}
    /\ Lengths \subseteq Nat /\ Undeclared \notin Nat

VARIABLES
    command,    \* "archive" for fetchBytes, "schema" for syncSchemaRest
    stage,      \* idle, connecting, answered, reading, parsed, opening,
                \* writing, ok, failed or killed
    timer,      \* off, armed or fired; a timer that fired aborts the request
    answer,     \* status and headers of the response
    server,     \* sending, complete or broken
    body,       \* the chunks the server has sent, each the bytes it has
    taken,      \* how many of them the command was handed
    chunks,     \* those it keeps
    receivedBytes,
    reader,     \* none, open or cancelled
    schemaFile  \* schema/api.github.com.json: as it was before, torn or whole

exchange == <<answer, server, body>>
local == <<taken, chunks, receivedBytes, reader>>
vars == <<command, stage, timer, exchange, local, schemaFile>>

Answers == [ok : BOOLEAN, declared : Lengths \cup {Undeclared}, streamed : BOOLEAN]
NoAnswer == [ok |-> FALSE, declared |-> Undeclared, streamed |-> FALSE]
Settled == {"ok", "failed", "killed"}

Init ==
    /\ command \in {"archive", "schema"}
    /\ stage = "idle"
    /\ timer = "off"
    /\ answer = NoAnswer
    /\ server = "sending"
    /\ body = <<>>
    /\ taken = 0
    /\ chunks = <<>>
    /\ receivedBytes = 0
    /\ reader = "none"
    /\ schemaFile = "before"

(* The server ***************************************************************)

\* syncSchemaRest clears its timer as soon as the headers are there.  A
\* response without a body has no chunks to come.
Respond ==
    /\ stage = "connecting" /\ timer = "armed" /\ server = "sending"
    /\ answer' \in Answers
    /\ server' = IF answer'.streamed THEN "sending" ELSE "complete"
    /\ stage' = "answered"
    /\ timer' = IF command = "schema" THEN "off" ELSE timer
    /\ UNCHANGED <<command, body, local, schemaFile>>

SendChunk ==
    /\ stage \in {"answered", "reading"} /\ server = "sending"
    /\ Len(body) < MaxChunks
    /\ \E n \in ChunkSizes : body' = Append(body, n)
    /\ UNCHANGED <<command, stage, timer, answer, server, local, schemaFile>>

StopSending ==
    /\ stage \in {"connecting", "answered", "reading"} /\ server = "sending"
    /\ server' \in IF stage = "connecting" THEN {"broken"} ELSE {"complete", "broken"}
    /\ UNCHANGED <<command, stage, timer, answer, body, local, schemaFile>>

(* The command **************************************************************)

Begin ==
    /\ stage = "idle"
    /\ stage' = "connecting"
    /\ timer' = "armed"
    /\ UNCHANGED <<command, exchange, local, schemaFile>>

\* However it ends, the finally clause clears the timer.
Settle(outcome) ==
    /\ stage' = outcome
    /\ timer' = "off"
    /\ UNCHANGED <<command, exchange>>

\* Mutant: the timer stops only the wait for the headers.
TimerFiresEarly ==
    /\ timer = "armed" /\ stage = "connecting"
    /\ timer' = "fired"
    /\ UNCHANGED <<command, stage, exchange, local, schemaFile>>

TimerFires ==
    /\ timer = "armed"
    /\ timer' = "fired"
    /\ UNCHANGED <<command, stage, exchange, local, schemaFile>>

\* The request itself rejects: no connection, or aborted before the headers.
FetchRejects ==
    /\ stage = "connecting"
    /\ server = "broken" \/ timer = "fired"
    /\ Settle("failed")
    /\ UNCHANGED <<local, schemaFile>>

\* Mutant: the limit itself is too large.
AssertArchiveSizeBelow(size) == size < Cap
AssertArchiveSize(size) == size <= Cap

\* An error status, or a declared length above the cap, ends the command
\* before the body is looked at.
AcceptsHeaders ==
    /\ answer.ok
    /\ command = "archive" /\ answer.declared # Undeclared
         => AssertArchiveSize(answer.declared)

RefuseHeaders ==
    /\ stage = "answered"
    /\ ~AcceptsHeaders
    /\ Settle("failed")
    /\ UNCHANGED <<local, schemaFile>>

\* No body at all: an empty archive, but no JSON.
ReadNoBody ==
    /\ stage = "answered"
    /\ AcceptsHeaders
    /\ ~answer.streamed
    /\ Settle(IF command = "archive" THEN "ok" ELSE "failed")
    /\ UNCHANGED <<local, schemaFile>>

GetReader ==
    /\ stage = "answered"
    /\ AcceptsHeaders
    /\ answer.streamed
    /\ stage' = "reading"
    /\ reader' = "open"
    /\ UNCHANGED <<command, timer, exchange, taken, chunks, receivedBytes, schemaFile>>

\* Mutant: a chunk comes twice.
ReadChunkAgain ==
    /\ stage = "reading" /\ timer # "fired"
    /\ taken < Len(body)
    /\ LET size == body[taken + 1]
       IN  /\ receivedBytes' = receivedBytes + size
           /\ IF command = "archive" /\ ~AssertArchiveSize(receivedBytes')
              THEN chunks' = chunks /\ reader' = "cancelled" /\ Settle("failed")
              ELSE chunks' = Append(chunks, size)
                   /\ UNCHANGED <<command, stage, timer, exchange, reader>>
    /\ taken' = IF Len(chunks) = 1 THEN taken ELSE taken + 1
    /\ UNCHANGED schemaFile

\* A chunk is counted before it is kept; the one that passes the cap is not
\* kept, and the stream is cancelled.
ReadChunk ==
    /\ stage = "reading" /\ timer # "fired"
    /\ taken < Len(body)
    /\ LET size == body[taken + 1]
       IN  /\ receivedBytes' = receivedBytes + size
           /\ IF command = "archive" /\ ~AssertArchiveSize(receivedBytes')
              THEN chunks' = chunks /\ reader' = "cancelled" /\ Settle("failed")
              ELSE chunks' = Append(chunks, size)
                   /\ UNCHANGED <<command, stage, timer, exchange, reader>>
    /\ taken' = taken + 1
    /\ UNCHANGED schemaFile

\* Mutant: the end of what has come is taken for the end of the body.
ReadEmpty ==
    /\ stage = "reading" /\ timer # "fired"
    /\ server # "sending" /\ taken = Len(body)
    /\ command = "schema" => chunks # <<>>
    /\ Settle(IF command = "archive" THEN "ok" ELSE "parsed")
    /\ UNCHANGED <<local, schemaFile>>

\* The archive is handed over; an empty text is no JSON, another may be.
ReadDone ==
    /\ stage = "reading" /\ timer # "fired"
    /\ server = "complete" /\ taken = Len(body)
    /\ command = "schema" => chunks # <<>>
    /\ Settle(IF command = "archive" THEN "ok" ELSE "parsed")
    /\ UNCHANGED <<local, schemaFile>>

\* A broken or aborted stream rejects the read that is waiting, even if
\* chunks are queued; what is not JSON fails syncSchemaRest at its end.
ReadRejects ==
    /\ stage = "reading"
    /\ \/ server = "broken" \/ timer = "fired"
       \/ command = "schema" /\ server = "complete" /\ taken = Len(body)
    /\ reader' = IF command = "archive" THEN "cancelled" ELSE reader
    /\ Settle("failed")
    /\ UNCHANGED <<taken, chunks, receivedBytes, schemaFile>>

\* syncSchemaRest makes the directory, opens the file, which empties it, and
\* writes the text; each may fail, and nothing puts back what was there.
MakeSchemaDir ==
    /\ stage = "parsed"
    /\ \/ Settle("opening") \/ Settle("failed")
    /\ UNCHANGED <<local, schemaFile>>

OpenSchemaFile ==
    /\ stage = "opening"
    /\ \/ Settle("writing") /\ schemaFile' = "torn"
       \/ Settle("failed") /\ UNCHANGED schemaFile
    /\ UNCHANGED local

WriteSchemaFile ==
    /\ stage = "writing"
    /\ \/ Settle("ok") /\ schemaFile' = "whole"
       \/ Settle("failed") /\ UNCHANGED schemaFile
    /\ UNCHANGED local

\* What a kill leaves of the archive's command is in OpenApiRefresh.
KillSync ==
    /\ command = "schema"
    /\ stage \notin {"idle"} \cup Settled
    /\ Settle("killed")
    /\ UNCHANGED <<local, schemaFile>>

CommandStep ==
    \/ FetchRejects \/ RefuseHeaders \/ ReadNoBody \/ GetReader
    \/ ReadChunk \/ ReadDone \/ ReadRejects
    \/ MakeSchemaDir \/ OpenSchemaFile \/ WriteSchemaFile

Next == Respond \/ SendChunk \/ StopSending \/ Begin \/ TimerFires \/ CommandStep \/ KillSync

Spec == Init /\ [][Next]_vars

\* The event loop runs what is ready and fires timers; servers may stop.
FairSpec == Spec /\ WF_vars(CommandStep) /\ WF_vars(TimerFires)

(* Properties ***************************************************************)

\* Every variable holds a value of its kind, and what is kept and counted is
\* what the stream handed over, in order and once, but for a refused chunk.
Sum(s) == LET upTo[i \in 0..Len(s)] == IF i = 0 THEN 0 ELSE upTo[i - 1] + s[i]
          IN  upTo[Len(s)]

TypeOK ==
    /\ command \in {"archive", "schema"}
    /\ stage \in {"idle", "connecting", "answered", "reading",
                 "parsed", "opening", "writing"} \cup Settled
    /\ timer \in {"off", "armed", "fired"}
    /\ answer \in Answers
    /\ server \in {"sending", "complete", "broken"}
    /\ body \in Seq(ChunkSizes) /\ Len(body) <= MaxChunks
    /\ taken \in 0..Len(body)
    /\ chunks = SubSeq(body, 1, Len(chunks))
    /\ Len(chunks) = IF reader = "cancelled" /\ receivedBytes > Cap THEN taken - 1 ELSE taken
    /\ receivedBytes = Sum(SubSeq(body, 1, taken))
    /\ reader \in {"none", "open", "cancelled"}
    /\ schemaFile \in {"before", "torn", "whole"}

\* A download that succeeds hands over all the server had to send: one that
\* broke off or ran out of time is never taken for a short archive.
ReturnedWhole ==
    command = "archive" /\ stage = "ok" => chunks = body /\ server = "complete"

\* The chunks that the archive's download keeps never sum to more than the cap,
\* whatever length its server declared and however the body is cut.  The chunk
\* that is refused, and the copy made of the others in the end, come on top.
HeldWithinCap ==
    command = "archive" => Sum(chunks) <= Cap

\* The schema file is touched only once the whole answer is there: no server
\* and no timer can spoil it.  It is torn only by a write that failed or was
\* killed, never by a sync that reports success.
SchemaFileExplained ==
    /\ schemaFile # "before" =>
        /\ command = "schema" /\ server = "complete"
        /\ chunks = body /\ body # <<>>
    /\ schemaFile = "torn" => stage \in {"writing", "failed", "killed"}

\* What a download delivers, holds and leaves behind.
DownloadIntact == ReturnedWhole /\ HeldWithinCap /\ SchemaFileExplained

\* The archive is refused only for a cause: the timer, the server, an error
\* status, or a size above the cap; one of exactly the cap is taken.
FailureExplained ==
    [][command = "archive" /\ stage # "failed" /\ stage' = "failed" =>
          \/ timer = "fired"
          \/ server = "broken"
          \/ stage = "answered" /\ ~answer.ok
          \/ stage = "answered" /\ answer.declared # Undeclared /\ answer.declared > Cap
          \/ Sum(body) > Cap]_vars

\* The archive's timer runs until its last byte, so its download ends though
\* the server stops in mid-body.  The schema's runs until the headers: its
\* download ends unless the server stops in mid-body.
EveryFetchEnds ==
    stage = "connecting" ~>
        \/ stage \in Settled
        \/ command = "schema" /\ stage = "reading" /\ server = "sending"
=============================================================================
