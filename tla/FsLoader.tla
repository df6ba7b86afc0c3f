------------------------------ MODULE FsLoader -------------------------------
(***************************************************************************)
(* The searcher of mlua.fs.loader (lib/pico/mlua.fs.loader.c): require()   *)
(* asks it for a module, which it reads, block by block, from the first    *)
(* file of package.path that opens.  The device may fail at any call.      *)
(***************************************************************************)
EXTENDS Naturals, Sequences, Functions

CONSTANTS
    SearchPath,  \* the file names that package.path gives for the module
    Contents     \* the contents a file may have: sequences of blocks

VARIABLES
    fs,      \* the filesystem, if there is one, is mounted when the module is opened
    files,   \* the files that exist, with their contents
    pc,      \* "idle", "search", "load", "loaded" or "done"
    path,    \* position in the search path
    file,    \* the file that is being read, what is left of it, and whether it is open
    chunk,   \* what was given to lua_load()
    err,     \* Loader.err
    result   \* "loader", "error" (a message that require() collects) or "none"

vars == <<fs, files, pc, path, file, chunk, err, result>>

Closed == [name |-> "", left |-> <<>>, open |-> FALSE]

Init ==
    /\ fs \in {"none", "unmounted", "mounted"}
    /\ files \in UNION {[S -> Contents] : S \in SUBSET Range(SearchPath)}
    /\ pc = "idle" /\ path = 0 /\ file = Closed /\ chunk = <<>> /\ err = FALSE /\ result = "none"

\* init(): the device is bound, and a failure to mount it goes unnoticed until a
\* file is opened.
Opens(p) == fs = "mounted" /\ p \in DOMAIN files

mod_search ==
    /\ pc \in {"idle", "done"}
    /\ pc' = (IF fs = "none" THEN "done" ELSE "search") /\ result' = "none"
    /\ path' = 1 /\ file' = Closed /\ chunk' = <<>> /\ err' = FALSE
    /\ UNCHANGED <<fs, files>>

Opened(p) == [name |-> p, left |-> files[p], open |-> TRUE]

\* One turn of the loop over the path.  An open() that fails, or raises an error,
\* adds to the message.
TryPath ==
    /\ pc = "search"
    /\ IF path > Len(SearchPath)
       THEN pc' = "done" /\ result' = "error" /\ UNCHANGED <<path, file>>
       ELSE \/ /\ Opens(SearchPath[path])
               /\ pc' = "load" /\ file' = Opened(SearchPath[path])
               /\ UNCHANGED <<path, result>>
            \/ path' = path + 1 /\ UNCHANGED <<pc, file, result>>
    /\ UNCHANGED <<fs, files, chunk, err>>

\* load_block(): a block, the end of the file, or an error, after which there is
\* no more of the chunk.  An empty block ends the chunk too.
load_block ==
    /\ pc = "load"
    /\ \/ /\ file.left # <<>>
          /\ chunk' = Append(chunk, Head(file.left))
          /\ file' = [file EXCEPT !.left = Tail(file.left)]
          /\ UNCHANGED <<pc, err>>
       \/ file.left = <<>> /\ pc' = "loaded" /\ UNCHANGED <<chunk, file, err>>
       \/ pc' = "loaded" /\ err' = TRUE /\ UNCHANGED <<chunk, file>>
    /\ UNCHANGED <<fs, files, path, result>>

\* Mutant: the error of the last read is not looked at.
M_Failed(compiles) == ~compiles
Failed(compiles) == ~compiles \/ err

\* The end of mod_search(), after lua_load(): what was read may be the beginning
\* of a chunk that compiles all the same.  The file is closed on every way out.
Loaded ==
    /\ pc = "loaded"
    /\ \E compiles \in BOOLEAN : result' = IF Failed(compiles) THEN "error" ELSE "loader"
    /\ pc' = "done" /\ file' = [file EXCEPT !.open = FALSE]
    /\ UNCHANGED <<fs, files, path, chunk, err>>

Next == mod_search \/ TryPath \/ load_block \/ Loaded

Spec == Init /\ [][Next]_vars

-----------------------------------------------------------------------------
(* Properties. *)

\* A module that is given to require() is the whole content of one existing file of
\* the search path, whatever reads failed; and no file stays open after the search.
LoadsWholeFile ==
    pc = "done" =>
       /\ ~file.open
       /\ result = "loader" => file.name \in DOMAIN files /\ chunk = files[file.name]
=============================================================================
