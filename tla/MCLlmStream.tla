------------------------------ MODULE MCLlmStream -----------------------------
(* Small instances of LlmStream for TLC.                                   *)
EXTENDS LlmStream

CONSTANTS s1, s2, s3

\* A chunked answer, one that ends without the sentinel, one framed by the
\* closing of the connection, one that breaks, and an error whose body has not
\* ended yet.
Chunked == <<"head", "token", "token", "[DONE]", "end">>
NoSentinel == <<"head", "token", "token", "end">>
CloseFramed == <<"head", "token", "token", "[DONE]">>
Broken == <<"head", "token", "bad">>
LongError == <<"fail", "text">>

AllResponses == {Chunked, NoSentinel, CloseFramed, Broken, LongError}

ASSUME AnswersAreWhole == \A r \in Responses : WholeAnswer(r)
===============================================================================
