--------------------------- MODULE MCHttpConnection ---------------------------
(* HttpConnection with small programs.                                      *)
EXTENDS HttpConnection

(* Every program of two requests, and of three of the main kinds.           *)
AllPrograms ==
    UNION {[1 .. n -> Kind] : n \in 1 .. 2} \cup [1 .. 3 -> {"page", "bare", "file", "upload"}]

NoPrograms == {}
FileThenPage == {<<"file", "page">>}
PageThenRedirect == {<<"page", "bare">>}
UploadThenPage == {<<"upload", "page">>}
ChunkedUpload == {<<"chunked", "page">>}
=============================================================================
