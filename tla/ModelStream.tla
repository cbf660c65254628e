---------------------------- MODULE ModelStream ----------------------------
(***************************************************************************)
(* One request of the agent loop to the model, answered as a stream        *)
(* (OpenAIClient.stream_complete): a worker thread reads the chunks and    *)
(* puts deltas, and at last "error" or "done", on a queue of the event     *)
(* loop; the event loop shows the deltas and returns the answer, raises,   *)
(* or asks once more without a stream when the answer is empty.            *)
(*                                                                         *)
(* Text is a sequence of pieces: blanks, words, the two halves of a JSON   *)
(* object that names a tool, and the token that ends a call written as     *)
(* text.  Arguments of a call are sequences of fragments.                  *)
(***************************************************************************)
EXTENDS Integers, Sequences, FiniteSets, SequencesExt

CONSTANTS
  Pieces,     \* the pieces of text the model sends, among those named below
  Indices,    \* the numbers of the calls in an answer
  Fragments,  \* pieces of the arguments of a call
  MaxChunks   \* bound on the chunks of a stream

Blank == "blank"
Open == "{"
Close == "}"
End == "<|FunctionCallEnd|>"

ASSUME StreamAssumption ==
  /\ Pieces \subseteq {Blank, Open, Close, End, "word"}
  /\ Indices \subseteq Nat
  /\ MaxChunks \in Nat

VARIABLES
  wire,       \* history: the chunks that arrived
  worker,     \* the worker thread: its place, content_parts, tool_chunks, defer_content
  queue,      \* what it put for the event loop, and the loop has not taken
  request,    \* stream_complete: its place and the response it returns
  shown       \* history: what on_delta was given

streamVars == <<wire, worker, queue, request, shown>>

TextChunk(p) == [kind |-> "text", piece |-> p]
\* Providers send the id with the first chunk of a call, some send none.
CallChunk(i, given, fragment) == [kind |-> "call", index |-> i, given |-> given, fragment |-> fragment]

NoResponse == [content |-> <<>>, calls |-> <<>>]
Call(id, arguments) == [id |-> id, arguments |-> arguments]

StreamInit ==
  /\ wire = <<>>
  /\ worker = [pc |-> "unstarted", parts |-> <<>>, chunks |-> [i \in {} |-> Call("", <<>>)],
               defer_content |-> "unknown"]
  /\ queue = <<>>
  /\ request = [pc |-> "none", response |-> NoResponse]
  /\ shown = <<>>

\* The event loop starts the worker thread and waits on the queue.
StartRequest ==
  /\ request.pc = "none"
  /\ request' = [request EXCEPT !.pc = "streaming"]
  /\ worker' = [worker EXCEPT !.pc = "reading"]
  /\ UNCHANGED <<wire, queue, shown>>

-----------------------------------------------------------------------------
NotBlank(p) == p # Blank
\* The content without the blanks before its first word.
LStrip(pieces) == LET words == {i \in DOMAIN pieces : NotBlank(pieces[i])}
                  IN IF words = {} THEN <<>>
                     ELSE SubSeq(pieces, CHOOSE i \in words : \A j \in words : i <= j, Len(pieces))

\* What stands before the first end token is one JSON value, an object that names a tool.
IsCallAsText(content) ==
  \E first, last, end \in DOMAIN content :
    /\ first < last /\ last < end
    /\ content[first] = Open /\ content[last] = Close /\ content[end] = End
    /\ \A i \in 1..(end - 1) : i \in {first, last} \/ content[i] = Blank

\* _parse_content_tool_calls: the id is made up from the place in the list.
ParseContentToolCalls(content) ==
  IF IsCallAsText(content) THEN <<Call("content_call_0", <<>>)>> ELSE <<>>

\* Mutant: the first chunk of text decides, also when it is blank.
DefersByFirstChunk(now, parts) ==
  IF now # "unknown" THEN now
  ELSE IF parts[1] = Open THEN "yes" ELSE "no"

\* defer_content after a piece was read: text that begins like JSON is held back until
\* it is known whether it is a tool call.
Defers(now, parts) ==
  IF now # "unknown" \/ LStrip(parts) = <<>> THEN now
  ELSE IF Head(LStrip(parts)) = Open THEN "yes" ELSE "no"

\* tool_chunks after a chunk of a call was read.
Assembled(chunks, c) ==
  LET state == IF c.index \in DOMAIN chunks THEN chunks[c.index] ELSE Call("", <<>>)
  IN [i \in DOMAIN chunks \cup {c.index} |->
        IF i = c.index THEN Call(IF c.given THEN "given" ELSE state.id, Append(state.arguments, c.fragment))
        ELSE chunks[i]]

\* The calls in the order of their index; a call without an id is given one.
CallList(chunks) ==
  LET order == SetToSortSeq(DOMAIN chunks, <)
  IN [k \in DOMAIN order |-> [chunks[order[k]] EXCEPT !.id = IF @ = "" THEN <<"call", order[k]>> ELSE @]]

-----------------------------------------------------------------------------
(***************************************************************************)
(* The worker thread.                                                      *)
(***************************************************************************)
Arrives(chunk) ==
  /\ worker.pc = "reading"
  /\ Len(wire) < MaxChunks
  /\ wire' = Append(wire, chunk)
  /\ UNCHANGED <<request, shown>>

ReadText == \E p \in Pieces :
  LET parts == Append(worker.parts, p)
      defers == Defers(worker.defer_content, parts)
  IN /\ Arrives(TextChunk(p))
     /\ worker' = [worker EXCEPT !.parts = parts, !.defer_content = defers]
     /\ queue' = IF defers = "yes" THEN queue ELSE Append(queue, [kind |-> "delta", data |-> <<p>>])

ReadCall == \E i \in Indices, given \in BOOLEAN, f \in Fragments :
  LET c == CallChunk(i, given, f)
  IN /\ Arrives(c)
     /\ worker' = [worker EXCEPT !.chunks = Assembled(@, c)]
     /\ UNCHANGED queue

\* [DONE], or the connection ends without it.
ReadEnd ==
  /\ worker.pc = "reading"
  /\ LET calls == CallList(worker.chunks)
         written == ParseContentToolCalls(worker.parts)
         deferred == IF worker.defer_content = "yes" THEN <<[kind |-> "delta", data |-> worker.parts]>>
                     ELSE <<>>
     IN queue' = IF calls = <<>> /\ written # <<>>
                 THEN Append(queue, [kind |-> "done", data |-> [content |-> <<>>, calls |-> written]])
                 ELSE (queue \o deferred)
                      \o <<[kind |-> "done", data |-> [content |-> worker.parts, calls |-> calls]]>>
  /\ worker' = [worker EXCEPT !.pc = "ended"]
  /\ UNCHANGED <<wire, request, shown>>

\* Mutant: the exception ends the thread and nobody hears of it.
ReadFailsSilently ==
  /\ worker.pc = "reading"
  /\ worker' = [worker EXCEPT !.pc = "ended"]
  /\ UNCHANGED <<wire, queue, request, shown>>

\* A status of refusal, a timeout, a reset, a chunk that is not JSON.
ReadFails ==
  /\ worker.pc = "reading"
  /\ worker' = [worker EXCEPT !.pc = "ended"]
  /\ queue' = Append(queue, [kind |-> "error", data |-> NoResponse])
  /\ UNCHANGED <<wire, request, shown>>

-----------------------------------------------------------------------------
(***************************************************************************)
(* The event loop.                                                         *)
(***************************************************************************)
Takes(kind) ==
  /\ request.pc = "streaming"
  /\ queue # <<>>
  /\ Head(queue).kind = kind
  /\ queue' = Tail(queue)
  /\ UNCHANGED <<wire, worker>>

ShowDelta ==
  /\ Takes("delta")
  /\ shown' = shown \o Head(queue).data
  /\ UNCHANGED request

RaiseError ==
  /\ Takes("error")
  /\ request' = [request EXCEPT !.pc = "raised"]
  /\ UNCHANGED shown

ReturnOrAskAgain ==
  /\ Takes("done")
  /\ LET response == Head(queue).data
     IN request' = [pc |-> IF response = NoResponse THEN "asking again" ELSE "returned", response |-> response]
  /\ UNCHANGED shown

\* The second request answers at once, with text, with calls, with nothing, or fails.
AskAgain ==
  /\ request.pc = "asking again"
  /\ \/ request' = [request EXCEPT !.pc = "raised"] /\ UNCHANGED shown
     \/ \E pieces \in SeqOf(Pieces, 3), calls \in {<<>>, <<Call("given", <<>>)>>} :
          LET written == IF calls = <<>> THEN ParseContentToolCalls(pieces) ELSE calls
              content == IF calls = <<>> /\ written # <<>> THEN <<>> ELSE pieces
          IN /\ request' = [pc |-> "returned", response |-> [content |-> content, calls |-> written]]
             /\ shown' = shown \o content
  /\ UNCHANGED <<wire, worker, queue>>

Worker == ReadText \/ ReadCall \/ ReadEnd \/ ReadFails
EventLoop == ShowDelta \/ RaiseError \/ ReturnOrAskAgain \/ AskAgain

StreamNext == StartRequest \/ Worker \/ EventLoop

\* A read of the connection returns or times out, and the event loop takes what is queued.
StreamFairness == WF_streamVars(Worker) /\ WF_streamVars(EventLoop)

StreamSpec == StreamInit /\ [][StreamNext]_streamVars /\ StreamFairness

-----------------------------------------------------------------------------
(***************************************************************************)
(* Properties.                                                             *)
(***************************************************************************)
\* When the request returns, the user was shown the text of the answer and nothing else,
\* but for blanks before its first word: no piece is lost or shown late, and nothing of a
\* tool call that was written as text is shown.
ShownIsTheAnswer ==
  request.pc = "returned" => LStrip(shown) = LStrip(request.response.content)

\* Every request returns or raises: an error of the worker thread reaches the event loop,
\* and an empty answer is asked for once more and not for ever.
RequestsEnd == request.pc = "streaming" ~> request.pc \in {"returned", "raised"}

=============================================================================
