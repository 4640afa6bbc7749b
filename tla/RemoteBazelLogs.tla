-------------------------- MODULE RemoteBazelLogs --------------------------
(***************************************************************************)
(* streamLogs of the remote-bazel CLI (src/cli/remotebazel/remotebazel.go) *)
(* polling the invocation's event-log chunks and redrawing the terminal.  *)
(*                                                                         *)
(* The log is the sequence of terminal rows 1..LogLen (splitLogBuffer's    *)
(* output: drawChunk counts moveBack from the same split it prints, so a  *)
(* row stands for one split row).  The server is the environment: rows are *)
(* written one by one; the live chunk is the rows after the last          *)
(* finalised chunk; finalising a chunk keeps a prefix of what was live and *)
(* moves the volatile tail on to the next chunk; completion finalises the *)
(* last chunk, whose response then carries an empty next chunk id.        *)
(* Chunk id "" is 0 here and stands for the first chunk, 1.               *)
(***************************************************************************)
EXTENDS Integers, Sequences, SequencesExt

CONSTANTS LogLen,     \* rows the invocation writes
          MaxChunks   \* chunks the server may cut the log into

NoChunk == 0          \* chunkID "" and an empty NextChunkId

VARIABLES
  written,   \* server: rows written so far
  sealed,    \* server: end row of each finalised chunk, in order
  done,      \* server: the invocation is complete
  chunkID,   \* client: chunkID
  moveBack,  \* client: moveBack, rows of the live chunk on screen
  chunks,    \* client: responses held back from drawing
  wasLive,   \* client: wasLive
  screen,    \* client: the rows on the terminal, top to bottom
  cpc        \* client: "poll", "returned" (nil) or "failed" (the error)

server == <<written, sealed, done>>
client == <<chunkID, moveBack, chunks, wasLive, screen, cpc>>
vars == <<server, client>>

Log == [i \in 1..LogLen |-> i]
Rows(a, b) == [i \in 1..(b - a) |-> a + i]            \* rows a+1 .. b
Responses == [buffer : Seq(1..LogLen), live : BOOLEAN, next : 0..MaxChunks]

\* First row of chunk id, minus one.
Start(id) == IF id = 1 THEN 0 ELSE sealed[id - 1]

\* The server's GetEventLogChunk response for chunk c: a finalised chunk with
\* the next id (none after the last one of a complete invocation), or the
\* live chunk naming itself as next.
Response(c) ==
  LET id == IF c = NoChunk THEN 1 ELSE c
      k  == Len(sealed)
  IN IF id <= k
     THEN [buffer |-> Rows(Start(id), sealed[id]), live |-> FALSE,
           next |-> IF done /\ id = k THEN NoChunk ELSE id + 1]
     ELSE [buffer |-> Rows(Start(id), written), live |-> TRUE, next |-> id]

TypeOK ==
  /\ written \in 0..LogLen
  /\ sealed \in Seq(0..LogLen) /\ Len(sealed) <= MaxChunks
  /\ done \in BOOLEAN
  /\ chunkID \in 0..MaxChunks
  /\ moveBack \in 0..LogLen
  /\ chunks \in Seq(Responses)
  /\ wasLive \in BOOLEAN
  /\ screen \in Seq(1..LogLen)
  /\ cpc \in {"poll", "returned", "failed"}

Init ==
  /\ written = 0 /\ sealed = <<>> /\ done = FALSE
  /\ chunkID = NoChunk
  /\ moveBack = 0
  /\ chunks = <<>>
  /\ wasLive = FALSE
  /\ screen = <<>>
  /\ cpc = "poll"

(***************************************************************************)
(* Server steps (environment).                                             *)
(***************************************************************************)
WriteRow ==
  /\ written < LogLen
  /\ written' = written + 1
  /\ UNCHANGED <<sealed, done, client>>

\* The live chunk is finalised at some row f; rows after f are volatile and
\* move to the next chunk.  One chunk id is kept for completion.
Finalize ==
  /\ ~done
  /\ Len(sealed) < MaxChunks - 1
  /\ \E f \in (Start(Len(sealed) + 1) + 1)..written :
       sealed' = Append(sealed, f)
  /\ UNCHANGED <<written, done, client>>

Complete ==
  /\ ~done
  /\ written = LogLen
  /\ sealed' = Append(sealed, LogLen)
  /\ done' = TRUE
  /\ UNCHANGED <<written, client>>

(***************************************************************************)
(* The client.                                                             *)
(***************************************************************************)
\* A mutant of drawChunk: moveBack is added to instead of set for a live
\* chunk ("moveBack += len(logLines)").
drawChunkAccumulate(st, chunk) ==
  LET kept == IF st.moveBack > 0
              THEN SubSeq(st.screen, 1, Len(st.screen) - st.moveBack)
              ELSE st.screen
  IN [screen |-> kept \o chunk.buffer,
      moveBack |-> IF ~chunk.live THEN 0 ELSE st.moveBack + Len(chunk.buffer)]

\* A mutant of drawChunk: moveBack is set to the chunk's rows whether or not
\* the chunk is live.
drawChunkNoReset(st, chunk) ==
  LET kept == IF st.moveBack > 0
              THEN SubSeq(st.screen, 1, Len(st.screen) - st.moveBack)
              ELSE st.screen
  IN [screen |-> kept \o chunk.buffer, moveBack |-> Len(chunk.buffer)]

\* drawChunk: erase the moveBack rows of a live chunk drawn before, print the
\* chunk, and remember its rows if it is live.
drawChunk(st, chunk) ==
  LET kept == IF st.moveBack > 0
              THEN SubSeq(st.screen, 1, Len(st.screen) - st.moveBack)
              ELSE st.screen
  IN [screen |-> kept \o chunk.buffer,
      moveBack |-> IF ~chunk.live THEN 0 ELSE Len(chunk.buffer)]

\* One iteration of streamLogs's loop with a successful GetEventLogChunk:
\* hold the response back while a chunk that was live is now finalised,
\* otherwise draw everything held; then stop on an empty next id, or poll
\* the next id (sleeping first if it is the same one).
Fetch ==
  /\ cpc = "poll"
  /\ LET l == Response(chunkID)
         held == Append(chunks, l)
         drawn == FoldLeft(drawChunk, [screen |-> screen, moveBack |-> moveBack], held)
         draw == ~wasLive \/ l.live
     IN /\ screen' = IF draw THEN drawn.screen ELSE screen
        /\ moveBack' = IF draw THEN drawn.moveBack ELSE moveBack
        /\ chunks' = IF draw THEN <<>> ELSE held
        /\ wasLive' = l.live
        /\ cpc' = IF l.next = NoChunk THEN "returned" ELSE "poll"
        /\ chunkID' = IF l.next = NoChunk THEN chunkID ELSE l.next
  /\ UNCHANGED server

\* GetEventLogChunk fails: streamLogs returns the error.
FetchFails ==
  /\ cpc = "poll"
  /\ cpc' = "failed"
  /\ UNCHANGED <<server, chunkID, moveBack, chunks, wasLive, screen>>

Next == WriteRow \/ Finalize \/ Complete \/ Fetch \/ FetchFails

Spec == Init /\ [][Next]_vars

(***************************************************************************)
(* Properties.                                                             *)
(***************************************************************************)
\* drawChunk's cursor arithmetic: whatever the order of polls, row writes
\* and chunk finalisations, the terminal shows the log's first rows in
\* order, without a row missing, repeated or left over from a live view.
ScreenIsLogPrefix == IsPrefix(screen, Log)

\* When streamLogs returns nil the terminal shows the whole log: the
\* finalised chunk held back "until the next chunk is retrieved" is printed.
ScreenShowsWholeLogOnReturn == cpc = "returned" => screen = Log
=============================================================================
