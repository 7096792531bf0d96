------------------------------ MODULE MCSqlTxn ------------------------------
(***************************************************************************)
(* Three processes that share a hoard cache, with two connections each, for*)
(* TLC: an upload, one that hoards a chunk and one that checks the cache.  *)
(***************************************************************************)
EXTENDS SqlTxn, TLC

CONSTANTS upload, put, hoarding, fetch, checking, invalidate,
          keyring, keyring2, hoard

MCConn == {upload, put, hoarding, fetch, checking, invalidate}

MCAttached ==
  (upload :> <<keyring, hoard>>) @@ (put :> <<hoard>>) @@
  (hoarding :> <<keyring2, hoard>>) @@ (fetch :> <<hoard>>) @@
  (checking :> <<hoard>>) @@ (invalidate :> <<hoard>>)

MCCaller ==
  (put :> upload) @@ (fetch :> hoarding) @@ (invalidate :> checking) @@
  [c \in MCConn |-> None]

MCJob ==
  (upload :> CopyForUpload(keyring, hoard, put)) @@ (put :> PutChunk(hoard)) @@
  (hoarding :> HoardParcel(keyring2, hoard, fetch)) @@
  (fetch :> GetChunk(hoard) \o PutChunk(hoard)) @@
  (checking :> CheckHoard(hoard, invalidate)) @@
  (invalidate :> InvalidateChunk(hoard))
=============================================================================
