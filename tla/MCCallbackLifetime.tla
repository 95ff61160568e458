-------------------------- MODULE MCCallbackLifetime --------------------------
(* Instances of CallbackLifetime for TLC.  rebase stands for the options    *)
(* that C copies (RebaseOptions, RemoteCallbacks), walk for the wrappers    *)
(* that never dispose (Revwalk, Packbuilder, DiffOptions), writer for       *)
(* OdbPackWriter; tags for the calls that dispose after errorCheck() and    *)
(* modules for submodules(); Odb.forEach, which never disposes, is tags     *)
(* without its last step.                                                   *)
EXTENDS CallbackLifetime

CONSTANTS rebase, walk, writer, tags, modules

Options   == {rebase}
AllPlain  == {writer}
Closers   == {writer}
Inner     == {rebase, walk}
Overrides == {rebase, writer}
Everyone  == {rebase, walk, writer}
After     == {tags}
Inside    == {modules}
Foreach   == {tags, modules}
Nobody    == {}
=============================================================================
