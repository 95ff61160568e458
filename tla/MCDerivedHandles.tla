-------------------------- MODULE MCDerivedHandles --------------------------
(* Instances of DerivedHandles for TLC.                                     *)
(*                                                                          *)
(* Disciplined classes: a ReferenceIterator with its InnerIterator, an      *)
(* inner class; a ConfigIterator and an entry of it, which is read at       *)
(* construction and moved at once; a reference, which may be deleted, and   *)
(* what it resolves to, a reference of its own.                             *)
(*                                                                          *)
(* Beside them a commit with its val author, a signature inside the commit  *)
(* whose class frees it.                                                    *)
(*                                                                          *)
(* A reference, whose val target (an id) points into it; rebase options,    *)
(* with merge options inside their structure; and a repository with a       *)
(* commit, whose object refers to it.                                       *)
EXTENDS DerivedHandles

CONSTANTS references, loop, config, setting, reference, resolved, target,
          rebase, merge, repository, commit, author

SeveralParents  == {references, config, reference, commit}
SeveralChildren == {loop, setting, resolved, author}
SeveralParentOf ==
    [c \in SeveralChildren |->
        CASE c = loop     -> references
          [] c = setting  -> config
          [] c = resolved -> reference
          [] c = author   -> commit]
Duplicated == {resolved}
Vals       == {author}
Moved      == {setting}
Freed      == {setting, resolved, author}
Used       == {loop, resolved, author}
Inner      == {loop}
Replacing  == {config}
Deleting   == {reference}

Answering == {reference, rebase, repository}
Options   == {rebase}
Answers   == {target, merge, commit}
AnswerOf  == [c \in Answers |-> CASE c = target -> reference
                                  [] c = merge  -> rebase
                                  [] c = commit -> repository]
Commits   == {commit}
Inside    == {target, merge}
None      == {}
=============================================================================
