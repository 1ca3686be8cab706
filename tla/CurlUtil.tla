------------------------------ MODULE CurlUtil ------------------------------
(***************************************************************************)
(* CurlUtil::CurlSend (CurlUtil.hpp): one call, with the buffer that       *)
(* WriteMemoryCallback lets grow while curl_easy_perform runs, the handle  *)
(* and the two lists. Calls share nothing but libcurl. Memory may run out  *)
(* wherever it is asked for, and the transfer may break anywhere.          *)
(***************************************************************************)
EXTENDS Integers, Sequences, SequencesExt

CONSTANTS
  Responses,  \* the bodies a server may send: sequences of characters and 0
  Cookies     \* how many cookies it sends with them

ASSUME CurlUtilAssumption ==
  /\ Responses \subseteq Seq(0 .. 255)
  /\ Cookies \in Nat

VARIABLES
  pc,           \* where the call is
  curl_handle,  \* does it have a handle? curl_easy_init may return NULL
  response,     \* the body that the server has for it
  received,     \* how much of it libcurl has passed to the callback
  memory,       \* is chunk.memory a block, and not NULL?
  room,         \* the size of that block
  size,         \* chunk.size
  content,      \* what was written to the block before its last zero
  res,          \* the result of curl_easy_perform, or "none": only CURLE_OK counts
  owned,        \* what the call has allocated and not released
  cookie,       \* respMsg.cookie: how many
  strResp       \* respMsg.strResp

chunk == <<memory, room, size, content>>
msg == <<cookie, strResp>>
curlVars == <<pc, curl_handle, response, received, chunk, res, owned, msg>>

CurlInit ==
  /\ pc = "malloc"
  /\ curl_handle = FALSE
  /\ response \in Responses
  /\ received = 0
  /\ memory = FALSE
  /\ room = 0
  /\ size = 0
  /\ content = <<>>
  /\ res = "none"
  /\ owned = {}
  /\ cookie = 0
  /\ strResp = <<>>

Goto(place) == pc' = place
Own(what) == owned' = owned \cup {what}
Release(what) == owned' = owned \ {what}

\* chunk.memory = malloc(1), which is not checked: memset(NULL) ends the
\* process.
Malloc ==
  /\ pc = "malloc"
  /\ \/ /\ memory' = TRUE
        /\ room' = 1
        /\ Own("memory")
        /\ Goto("handle")
     \/ Goto("crashed") /\ UNCHANGED <<memory, room, owned>>
  /\ UNCHANGED <<curl_handle, response, received, size, content, res, msg>>

\* A handle or NULL: CurlSend goes on with either.
Handle ==
  /\ pc = "handle"
  /\ \/ curl_handle' = TRUE /\ Own("handle")
     \/ UNCHANGED <<curl_handle, owned>>
  /\ Goto("setopt")
  /\ UNCHANGED <<response, received, chunk, res, msg>>

\* The options, among them the header list hs, which may be NULL.
Setopt ==
  /\ pc = "setopt"
  /\ \/ Own("hs") \/ UNCHANGED owned
  /\ Goto("perform")
  /\ UNCHANGED <<curl_handle, response, received, chunk, res, msg>>

----------------------------------------------------------------------------
(* curl_easy_perform                                                       *)

PerformDone(result) ==
  /\ res' = result
  /\ Goto("getinfo")
  /\ UNCHANGED <<curl_handle, response, msg>>

(* Mutants: the callback may write nothing and say it did; the zero is     *)
(* forgotten. *)
WriteUnchecked(n) ==
  /\ room' = size + n + 1
  /\ received' = received + n
  /\ \/ /\ content' = content \o SubSeq(response, received + 1, received + n)
        /\ size' = size + n
     \/ UNCHANGED <<content, size>>
  /\ UNCHANGED <<pc, curl_handle, response, memory, res, owned, msg>>
WriteNoRoom(n) ==
  /\ room' = size + n
  /\ content' = content \o SubSeq(response, received + 1, received + n)
  /\ size' = size + n
  /\ received' = received + n
  /\ UNCHANGED <<pc, curl_handle, response, memory, res, owned, msg>>

\* WriteMemoryCallback with n more characters: the block grows to hold them
\* and a zero, ...
Write(n) ==
  /\ room' = size + n + 1
  /\ content' = content \o SubSeq(response, received + 1, received + n)
  /\ size' = size + n
  /\ received' = received + n
  /\ UNCHANGED <<pc, curl_handle, response, memory, res, owned, msg>>

\* ... or realloc returns NULL, the callback 0, and libcurl gives up. The old
\* block is still there but nothing points to it.
OutOfMemory ==
  /\ memory' = FALSE
  /\ owned' = (owned \ {"memory"}) \cup {"lost block"}
  /\ UNCHANGED <<room, size, content, received>>
  /\ PerformDone("CURLE_WRITE_ERROR")

Perform ==
  /\ pc = "perform"
  /\ curl_handle
  /\ \/ \E n \in 1 .. Len(response) - received : Write(n)
     \/ received < Len(response) /\ OutOfMemory
     \/ /\ received = Len(response)
        /\ PerformDone("CURLE_OK")
        /\ UNCHANGED <<received, chunk, owned>>
     \/ \* no host, no connection, a connection that breaks ...
        PerformDone("CURLE_RECV_ERROR") /\ UNCHANGED <<received, chunk, owned>>

PerformNull ==
  /\ pc = "perform"
  /\ ~curl_handle
  /\ PerformDone("CURLE_BAD_FUNCTION_ARGUMENT")
  /\ UNCHANGED <<received, chunk, owned>>

----------------------------------------------------------------------------
(* The answer.                                                             *)

\* CURLINFO_COOKIELIST, after CURLE_OK only; libcurl may have no memory for it.
GetCookies ==
  /\ pc = "getinfo"
  /\ \/ /\ res = "CURLE_OK"
        /\ Own("cookies")
        /\ cookie' = Cookies
     \/ UNCHANGED <<owned, cookie>>
  /\ Goto("assign")
  /\ UNCHANGED <<curl_handle, response, received, chunk, res, strResp>>

\* The characters before the first zero.
CString(s) ==
  LET zeros == {k \in DOMAIN s : s[k] = 0}
  IN  IF zeros = {} THEN s ELSE SubSeq(s, 1, Min(zeros) - 1)

\* respMsg.strResp.assign(chunk.memory): as far as the first zero.
AssignResp ==
  /\ pc = "assign"
  /\ strResp' = IF memory THEN CString(content) ELSE <<>>
  /\ Goto("cleanup")
  /\ UNCHANGED <<curl_handle, response, received, chunk, res, owned, cookie>>

\* push_back or assign throws bad_alloc: nothing is cleaned up.
BadAlloc ==
  /\ pc \in {"getinfo", "assign"}
  /\ pc = "getinfo" => res = "CURLE_OK" /\ Cookies > 0
  /\ IF pc = "getinfo" THEN Own("cookies") ELSE UNCHANGED owned
  /\ Goto("thrown")
  /\ UNCHANGED <<curl_handle, response, received, chunk, res, msg>>

(* Mutant: no handle is cleaned up after an error. *)
CleanupIfOk ==
  /\ pc = "cleanup"
  /\ IF res = "CURLE_OK" THEN Release("handle") ELSE UNCHANGED owned
  /\ Goto("free")
  /\ UNCHANGED <<curl_handle, response, received, chunk, res, msg>>

\* errMsg is the text for res.
Cleanup ==
  /\ pc = "cleanup"
  /\ Release("handle")
  /\ Goto("free")
  /\ UNCHANGED <<curl_handle, response, received, chunk, res, msg>>

Free ==
  /\ pc = "free"
  /\ Release("memory")
  /\ Goto("returned")
  /\ UNCHANGED <<curl_handle, response, received, chunk, res, msg>>

CurlSend ==
  \/ Malloc \/ Handle \/ Setopt
  \/ Perform \/ PerformNull
  \/ GetCookies \/ AssignResp \/ BadAlloc \/ Cleanup \/ Free

CurlSpec == CurlInit /\ [][CurlSend]_curlVars

----------------------------------------------------------------------------
(* Properties.                                                             *)

Returned == pc = "returned"

(* The block has room for what was received and the zero after it; size    *)
(* says where that zero is, as the next call of the callback relies on. No *)
(* block is used or freed that is not there.                               *)
WithinBlock ==
  memory /\ ~Returned =>
    /\ "memory" \in owned
    /\ size < room
    /\ size = Len(content)

(* A call that says CURLE_OK returns the whole body, up to the first zero  *)
(* in it: no failure on the way to it goes unnoticed. After any other      *)
(* result what is returned is a beginning of the body, with no cookies.    *)
ResponseIsBody ==
  Returned =>
    /\ res = "CURLE_OK" => strResp = CString(response)
    /\ res # "CURLE_OK" => IsPrefix(strResp, response) /\ cookie = 0

(* A call that returns has closed its handle and freed its buffer, at      *)
(* whatever step something failed: only the lists are left, and a block    *)
(* that could not grow.                                                    *)
HandleReleased == Returned => owned \subseteq {"hs", "cookies", "lost block"}
=============================================================================
