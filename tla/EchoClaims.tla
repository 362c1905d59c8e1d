----------------------------- MODULE EchoClaims -----------------------------
(***************************************************************************)
(* What a comment of the echo server says and its code does not do.        *)
(***************************************************************************)
EXTENDS EchoServer

\* "Copy all data from fd -> fd" (socket.c:467): what a thread writes to its
\* connection is what it read from it.  The buffer is static, so two threads
\* overwrite each other's data between read and write.
CopiesAllData == \A c \in Clients : Exact(c)

=============================================================================
