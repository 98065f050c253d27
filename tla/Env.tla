--------------------------------- MODULE Env ---------------------------------
(***************************************************************************)
(* The boot environment of common/env/env.c: a list of "name=value"        *)
(* strings, saved to and read back from a region of the flash.             *)
(*                                                                         *)
(*   env       global_env_ctb: the list of strings, by name and length,    *)
(*             and its fields free (32 bits) and count                     *)
(*   flash     the cells (bytes) of the region: "E" for the three letters  *)
(*             of the header, NUL, erased (0xFF), or the name of the       *)
(*             string the byte belongs to                                  *)
(*   save      the buffer board_get_env_write() is writing and how many    *)
(*             pages it has written                                        *)
(*   stored    what the last save that ended has put into the flash        *)
(*   boots     parity of the number of boots                               *)
(*                                                                         *)
(* The board may be reset at any step of a save.  Memory can run out in    *)
(* env_set(); in env_save() that leaves everything as it is, and env_init()*)
(* runs when nothing has been allocated yet.                               *)
(***************************************************************************)
EXTENDS Integers, Sequences

CONSTANTS Names, Lens,   \* the variables, and the lengths of their strings
          Length,        \* board_get_env_length(), in bytes
          Page,          \* bytes the flash writes at a time
          Words          \* 2^32

VARIABLES env, flash, save, stored, boots

vars == <<env, flash, save, stored, boots>>

NUL == "0"

Erased == "ff"

Stray == "?"

Region == 0 .. Length - 1

NoSave == [image |-> <<>>, pages |-> 0]

Entries == [name : Names \cup {Stray, Erased}, len : Nat]

TypeOK ==
    /\ \A i \in 1 .. Len(env.list) : env.list[i] \in Entries
    /\ env.free \in 0 .. Words - 1 /\ env.count \in Nat
    /\ flash \in [Region -> Names \cup {"E", NUL, Erased, Stray}]
    /\ save.pages \in 0 .. Length \div Page
    /\ boots \in BOOLEAN

Taken(l) ==
    LET taken[i \in 0 .. Len(l)] == IF i = 0 THEN 0 ELSE taken[i - 1] + l[i].len + 1
    IN  taken[Len(l)]

\* The strings env_save() puts into its buffer: those before the first that
\* does not end inside it.
Fitting(l) ==
    LET n == CHOOSE i \in 0 .. Len(l) :
                /\ 4 + Taken(SubSeq(l, 1, i)) <= Length
                /\ i < Len(l) => 4 + Taken(SubSeq(l, 1, i + 1)) > Length
    IN  SubSeq(l, 1, n)

\* A mutant: the strings are written without the NUL between them.
ImageJoined(l) ==
    [c \in Region |->
        LET f  == Fitting(l)
            in == {i \in 1 .. Len(f) :
                      c \in 4 + Taken(SubSeq(f, 1, i - 1)) .. 3 + Taken(SubSeq(f, 1, i))}
        IN  IF c < 3 THEN "E" ELSE IF in = {} THEN NUL ELSE f[CHOOSE i \in in : TRUE].name]

\* The buffer: the header, then each string and its NUL, the rest zero.
Image(l) ==
    [c \in Region |->
        LET f  == Fitting(l)
            in == {i \in 1 .. Len(f) :
                      c \in 4 + Taken(SubSeq(f, 1, i - 1)) .. 2 + Taken(SubSeq(f, 1, i))}
        IN  IF c < 3 THEN "E" ELSE IF in = {} THEN NUL ELSE f[CHOOSE i \in in : TRUE].name]

HeaderOK(image) == (\A c \in 0 .. 2 : image[c] = "E") /\ image[3] = NUL

\* The loop of env_init().  Beyond its buffer it meets the header of the next
\* block of the heap, whose first byte is not zero.
Parse(image) ==
    LET cell(c)  == IF c < Length THEN image[c] ELSE IF c = Length THEN Stray ELSE NUL
        end(c)   == CHOOSE e \in c .. Length + 1 : cell(e) = NUL /\ \A d \in c .. e - 1 : cell(d) # NUL
        parse[p \in 0 .. Length + 1] ==
            IF p >= Length \/ (cell(p) = NUL /\ cell(p + 1) = NUL) THEN <<>>
            ELSE <<[name |-> cell(p + 1), len |-> end(p + 1) - (p + 1)]>> \o parse[end(p + 1)]
    IN  parse[3]

\* env_node_add()
env_node_add(e, node) ==
    [list |-> Append(e.list, node), free |-> (e.free - (node.len + 1)) % Words, count |-> e.count + 1]

\* A mutant: the NUL of a deleted string keeps its byte.
DeleteKeepsNul(e, i) ==
    [list |-> SubSeq(e.list, 1, i - 1) \o SubSeq(e.list, i + 1, Len(e.list)),
     free |-> (e.free + e.list[i].len) % Words, count |-> e.count - 1]

\* env_node_delete() of the i-th
env_node_delete(e, i) ==
    [list |-> SubSeq(e.list, 1, i - 1) \o SubSeq(e.list, i + 1, Len(e.list)),
     free |-> (e.free + e.list[i].len + 1) % Words, count |-> e.count - 1]

\* env_node_search(): the first of that name
env_node_search(e, name) == {i \in 1 .. Len(e.list) : /\ e.list[i].name = name
                                                     /\ \A j \in 1 .. i - 1 : e.list[j].name # name}

Cleared == [list |-> <<>>, free |-> Length - 4, count |-> 0]

\* env_init()
Booted(image) ==
    LET l == IF HeaderOK(image) THEN Parse(image) ELSE <<>>
        added[i \in 0 .. Len(l)] == IF i = 0 THEN Cleared ELSE env_node_add(added[i - 1], l[i])
    IN  added[Len(l)]

Without(name) ==
    LET found == env_node_search(env, name)
    IN  IF found = {} THEN env ELSE env_node_delete(env, CHOOSE i \in found : TRUE)

\* A flash that was never written: the header is wrong, the list empty.
Init ==
    /\ flash = [c \in Region |-> Erased]
    /\ env = Cleared /\ stored = <<>>
    /\ save = NoSave
    /\ boots = FALSE

\* The shell runs one command at a time.
Idle == save = NoSave

env_unset(name) ==
    /\ Idle
    /\ env' = Without(name)
    /\ UNCHANGED <<flash, save, stored, boots>>

\* The old string of the variable goes, the new one comes last, if there is
\* memory for it; nothing is checked against free.
env_set(name, len) ==
    /\ Idle
    /\ env' \in {env_node_add(Without(name), [name |-> name, len |-> len]), Without(name)}
    /\ UNCHANGED <<flash, save, stored, boots>>

\* env_save() and sfud_erase() of the region; then sfud_write(), page by page.
env_save ==
    /\ Idle
    /\ save' = [image |-> Image(env.list), pages |-> 0]
    /\ flash' = [c \in Region |-> Erased]
    /\ UNCHANGED <<env, stored, boots>>

WritePage ==
    /\ ~Idle
    /\ flash' = [c \in Region |-> IF c \div Page = save.pages THEN save.image[c] ELSE flash[c]]
    /\ IF (save.pages + 1) * Page < Length
       THEN save' = [save EXCEPT !.pages = @ + 1] /\ UNCHANGED stored
       ELSE save' = NoSave /\ stored' = Fitting(env.list)
    /\ UNCHANGED <<env, boots>>

\* A reset, then env_init().  A save it interrupts leaves part of the image.
Boot ==
    /\ env' = Booted(flash)
    /\ save' = NoSave
    /\ boots' = ~boots
    /\ stored' = IF Idle THEN stored ELSE env'.list
    /\ UNCHANGED flash

Next ==
    \/ env_save \/ WritePage \/ Boot
    \/ \E name \in Names : env_unset(name) \/ \E len \in Lens : env_set(name, len)

Spec == Init /\ [][Next]_vars

(***************************************************************************)
(* Properties.                                                             *)
(***************************************************************************)

\* What a save has stored, the next boots read back, in order and whole, until
\* another save begins; a boot in the middle of that one is the exception, and
\* so is a region filled to its last byte, where env_init() reads on.
LoadStep == boots' # boots /\ Idle /\ 4 + Taken(stored) < Length => env'.list = stored

SavedIsLoaded == [][LoadStep]_vars

\* No variable is there twice, and free and count tell what the list takes,
\* free modulo 2^32 since env_set() does not look at it.
EnvCounted ==
    /\ env.count = Len(env.list) /\ (env.free + Taken(env.list)) % Words = Length - 4
    /\ \A i, j \in 1 .. Len(env.list) :
          env.list[i].name = env.list[j].name /\ env.list[i].name \in Names => i = j

=============================================================================
