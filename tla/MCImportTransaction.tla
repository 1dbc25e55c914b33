------------------------ MODULE MCImportTransaction ------------------------
\* Small instances of ImportTransaction for TLC.
EXTENDS ImportTransaction, TLC

CONSTANTS i1, i2, w1, k1, k2, k3

File(entries) == [form |-> "file", large |-> FALSE, entries |-> entries]

Post(items) == [form |-> "body", large |-> FALSE, entries |-> <<items>>]

\* An archive of two entries and three chunks, with a repeated key and a bad item, and a
\* body that overlaps it; or uploads that are refused, and an empty body, which is not.
MCUploads ==
  {(i1 :> File(<<<<k1, k2>>, <<k1, k3, Bad>>>>)) @@ (i2 :> Post(<<k2, k3>>)),
   (i1 :> File(<<<<k1>>, Broken>>)) @@ (i2 :> Post(<<k1, k2, k3>>)),
   (i1 :> File(<<<<k1>>, <<k2>>, <<k3>>>>)) @@ (i2 :> Post(<<>>)),
   (i1 :> File(<<>>)) @@ (i2 :> File(<<<<>>, <<k2>>>>)),
   (i1 :> [File(<<<<k1>>>>) EXCEPT !.large = TRUE]) @@ (i2 :> File(<<<<>>>>))}
=============================================================================
