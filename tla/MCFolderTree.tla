---------------------------- MODULE MCFolderTree ----------------------------
EXTENDS FolderTree, TLC

CONSTANTS dirA, dirB, doc, h1, h2, m1, m2, w1, w2

TwoFolders == {dirA, dirB}
OneFile == {doc}
OneHolder == {h1}
TwoMovers == {m1, m2}
OnePurger == {w1}
TwoPurgers == {w1, w2}

Selections == {{dirA}, {dirB}, {doc}, {dirA, dirB}, {dirA, doc}, {dirB, doc}}

\* The companies of actors whose interplay is checked.
Editing == {"create", "move", "batch", m1, m2, "trash", "restore", "purge"}
Locking == {"create", "move", m1, "lock", "trash"}
Staging == {"move", "batch", m1, "trash", "purge", "task", "crash"}
Unlocking == {"batch", m1, "task", "unlock"}
Emptying == {"trash", "restore", "purge", "empty"}
Uploading == {"create", "move", m1, "upload"}

AllCasts == {Editing, Locking, Staging, Unlocking, Emptying, Uploading}
LateUpload == {{"upload", "trash", "purge"}}

Alike == Permutations(TwoFolders) \cup Permutations(TwoPurgers)
=============================================================================
