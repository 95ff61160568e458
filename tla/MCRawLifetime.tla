---------------------------- MODULE MCRawLifetime ----------------------------
(* Instances of RawLifetime for TLC: an OdbReader-like stream that can be  *)
(* closed and a Blob-like object that can be converted.                    *)
EXTENDS RawLifetime

CONSTANTS stream, blob

Objects    == {stream, blob}
Closers    == {stream}
Converters == {blob}
=============================================================================
