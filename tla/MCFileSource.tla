---------------------------- MODULE MCFileSource ----------------------------
(* Bounded instances of FileSource: the calls each run allows. *)
EXTENDS FileSource

\* Everything that has a hook or a map of written arguments.
Hooks == Hooked \cup {"fstat", "lseek"}

\* A call that fails after its arguments were found good.
Failing == Hooks \ {"dup2", "dup3"}

\* What moves descriptors, data and positions behind the back of the hooks.
Unhooked == {"open", "close", "dup", "mmap", "readv", "fcntl", "lseek"}

\* The calls of the runs that look for one disagreement each.
Descriptors == {"open", "close", "dup2", "dup3"}

Mapping == {"open", "mmap", "read"}

Nothing == {}
=============================================================================
