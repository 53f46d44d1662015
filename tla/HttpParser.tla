------------------------------ MODULE HttpParser ------------------------------
(***************************************************************************)
(* The request parser of src/http/core.c as ahttp_core_on_data runs it:    *)
(* over the loop's receive buffer, which every socket shares and nothing   *)
(* clears or terminates, as a string that ends wherever its first NUL      *)
(* happens to be: a byte the client sent, one left by an earlier request,  *)
(* one of the memory behind the buffer, or none at all.  One step is one   *)
(* byte of the parser's loop.                                              *)
(***************************************************************************)
EXTENDS Naturals, Sequences, FiniteSetsExt

CONSTANTS
  Char,          \* every byte there is: clients send any of them
  SPACE,
  NUL,
  UNSET,         \* what an uninitialised variable holds
  BufferLength,  \* bytes of the receive buffer, from the data pointer on
  MemoryLength,  \* bytes that can be read from there on, before the process is stopped
  MaxRequest     \* bytes recv returns at most (ASOCK_RECV_BUFFER_LENGTH)

ASSUME ParserAssumption ==
  /\ {SPACE, NUL} \subseteq Char /\ SPACE # NUL
  /\ BufferLength \in Nat /\ MemoryLength \in Nat
  /\ MaxRequest \in 1..BufferLength
  /\ BufferLength <= MemoryLength

VARIABLES
  recv_buf,   \* the receive buffer and the memory behind it, from the data pointer on
  length,     \* what recv returned
  pc,         \* recv, parse, done, crashed
  i, start,   \* the parser's position and where the current field started
  state,      \* 0 method, 1 url, 2 version
  method,     \* ahttp_core_parse's local of that name
  url,        \* its url: the bytes copied, or UNSET
  request     \* on_data's pointer to the request

vars == <<recv_buf, length, pc, i, start, state, method, url, request>>

Strings == UNION {[1..n -> Char] : n \in 1..MaxRequest}

Position == 0..MemoryLength - 1
Memory == [Position -> Char]

Terminated(buf) == \E k \in Position : buf[k] = NUL

strlen(buf) == Min({k \in Position : buf[k] = NUL})

\* len bytes of the buffer from position from on (strncpy)
Bytes(buf, from, len) == [k \in 1..len |-> buf[from + k - 1]]

\* malloc leaves the buffer as it finds it.
Init ==
  /\ recv_buf \in Memory
  /\ pc = "recv"
  /\ length = 0 /\ i = 0 /\ start = 0 /\ state = 0
  /\ method = UNSET /\ url = UNSET /\ request = UNSET

-----------------------------------------------------------------------------
\* A request arrives over the bytes of earlier ones; the memory behind the buffer is
\* of other blocks, which may have changed since.  on_data declares request and calls
\* ahttp_core_parse, which declares the rest.
Recv ==
  /\ pc = "recv"
  /\ \E data \in Strings, others \in [BufferLength..MemoryLength - 1 -> Char] :
       /\ recv_buf' = [k \in Position |->
            CASE k < Len(data)     -> data[k + 1]
              [] k >= BufferLength -> others[k]
              [] OTHER             -> recv_buf[k]]
       /\ length' = Len(data)
  /\ pc' = "parse"
  /\ i' = 0 /\ start' = 0 /\ state' = 0
  /\ method' = UNSET /\ url' = UNSET /\ request' = UNSET

(***************************************************************************)
(* ahttp_core_parse_method compares a copy of the word with the methods it *)
(* knows, and assigns what it finds to its own parameter: the caller's     *)
(* method stays as it is.                                                  *)
(***************************************************************************)
ParseMethod(callers, word) == callers

\* ahttp_core_parse_url copies into the block it is given.
MParseUrl(from, len) == Bytes(recv_buf, 0, len)   \* from the start of the data
ParseUrl(from, len) == Bytes(recv_buf, from, len)

\* The loop asks for strlen(data) before every byte.  Where there is no NUL it reads on
\* to memory the process does not have.
InString == pc = "parse" /\ Terminated(recv_buf) /\ i < strlen(recv_buf)

Overrun ==
  /\ pc = "parse"
  /\ ~Terminated(recv_buf)
  /\ pc' = "crashed"
  /\ UNCHANGED <<recv_buf, length, i, start, state, method, url, request>>

AtSpace == InString /\ recv_buf[i] = SPACE

EndOfMethod ==
  /\ AtSpace
  /\ state = 0
  /\ method' = ParseMethod(method, Bytes(recv_buf, start, i - start))
  /\ start' = i
  /\ state' = 1
  /\ i' = i + 1
  /\ UNCHANGED <<recv_buf, length, pc, url, request>>

MEndOfUrl ==   \* goes on to the next space: no change of state
  /\ AtSpace
  /\ state = 1
  /\ url' = ParseUrl(start, i - start)
  /\ i' = i + 1
  /\ UNCHANGED <<recv_buf, length, pc, method, request, start, state>>

EndOfUrl ==
  /\ AtSpace
  /\ state = 1
  /\ url' = ParseUrl(start, i - start)
  /\ start' = i
  /\ state' = 2
  /\ i' = i + 1
  /\ UNCHANGED <<recv_buf, length, pc, method, request>>

MNextByteLast ==   \* i <= strlen(data)
  /\ pc = "parse"
  /\ Terminated(recv_buf)
  /\ i <= strlen(recv_buf)
  /\ recv_buf[i] = SPACE => state = 2
  /\ i' = i + 1
  /\ UNCHANGED <<recv_buf, length, pc, start, state, method, url, request>>

NextByte ==
  /\ InString
  /\ recv_buf[i] = SPACE => state = 2
  /\ i' = i + 1
  /\ UNCHANGED <<recv_buf, length, pc, start, state, method, url, request>>

\* The request is allocated into ahttp_core_parse's own copy of the pointer.  The url
\* that is printed is unset, or was copied without a NUL: printf may read on until the
\* process is stopped.
Finish ==
  /\ pc = "parse"
  /\ Terminated(recv_buf)
  /\ i = strlen(recv_buf)
  /\ pc' \in {"done", "crashed"}
  /\ UNCHANGED <<recv_buf, length, i, start, state, method, url, request>>

\* on_data goes on to answer (HttpServer), and the next request comes.
Return ==
  /\ pc = "done"
  /\ pc' = "recv"
  /\ UNCHANGED <<recv_buf, length, i, start, state, method, url, request>>

Crashed == pc = "crashed" /\ UNCHANGED vars

Next ==
  \/ Recv \/ Overrun \/ EndOfMethod \/ EndOfUrl \/ NextByte \/ Finish \/ Return
  \/ Crashed

Spec == Init /\ [][Next]_vars

-----------------------------------------------------------------------------
\* The positions of the spaces among the first n bytes of the buffer.
Spaces(n) == {k \in 0..n - 1 : recv_buf[k] = SPACE}

\* The url field of the first n bytes: from the first space to the second, UNSET
\* if they are not both there.
UrlField(n) ==
  LET first == Min(Spaces(n))
  IN  IF Cardinality(Spaces(n)) < 2 THEN UNSET
      ELSE Bytes(recv_buf, first, Min(Spaces(n) \ {first}) - first)

\* The bytes of the request the parser can see: up to the first NUL the client sent.
RequestLength == Min({length} \cup {k \in 0..length - 1 : recv_buf[k] = NUL})

\* Type correctness; the field being read starts at or before the position, which
\* stays inside the string, where there is one.
TypeOK ==
  /\ recv_buf \in Memory
  /\ length \in 0..MaxRequest
  /\ pc \in {"recv", "parse", "done", "crashed"}
  /\ start <= i
  /\ pc = "parse" /\ Terminated(recv_buf) => i <= strlen(recv_buf)
  /\ state \in 0..2
  /\ url = UNSET \/ Len(url) \in 1..MemoryLength

\* The loop with its three states finds what its comment says, for every content of
\* the memory it is run over: "once it hits a space, it will see what the previous
\* data was".
UrlIsSecondField == pc = "done" => url = UrlField(strlen(recv_buf))

\* A request that has its second space, or a NUL, is parsed from its own bytes alone,
\* whatever earlier requests left behind it in the buffer (ahttp_core_parse); a NUL
\* hides what the client sent after it.
CompleteRequestsAreOwn ==
  pc = "done" /\ (RequestLength < length \/ Cardinality(Spaces(RequestLength)) >= 2)
    => url = UrlField(RequestLength)

\* "Parse data into `ahttp_request_t`" (on_data, which has the data's length): what
\* is found is found in the request.
FoundInRequest == pc = "done" => url = UrlField(RequestLength)
=============================================================================
