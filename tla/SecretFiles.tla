---------------------------- MODULE SecretFiles ----------------------------
(***************************************************************************)
(* What protects a credential on disk: the node the store makes for it on  *)
(* each platform, and what it asks of a node before it uses one.           *)
(*                                                                         *)
(* A machine is its platform, whether the account administers it, and      *)
(* whether its state home hands an access list down to what is made in it. *)
(* A node is its type, its owner, the ways it is open to others and        *)
(* whether it hands a list down itself.                                    *)
(***************************************************************************)
EXTENDS Integers

Machines == [os : {"linux", "mac", "windows"}, admin : BOOLEAN, hands : BOOLEAN]

Unix(m) == m.os # "windows"

(* "mode": the permission bits let others in; "list": an access list does. *)
Ways == {"mode", "list"}

Absent == [type |-> "absent", owner |-> "nobody", open |-> {}, hands |-> FALSE]

Nodes ==
  [type : {"absent", "file", "directory", "link"},
   owner : {"nobody", "user", "admins", "stranger"}, open : SUBSET Ways, hands : BOOLEAN]
---------------------------------------------------------------------------
(* What is made: create_secret_directory and create_secret_file.           *)

(* On Unix with bits that let nobody else in; a list handed down stays.    *)
UnixMakes(type, hands) ==
  [type |-> type, owner |-> "user", open |-> IF hands THEN {"list"} ELSE {},
   hands |-> hands /\ type = "directory"]

(* Windows makes the administrators the owner of what one of them makes.   *)
TokenOwner(m) == IF m.admin THEN "admins" ELSE "user"

TokenUser == "user"

(* The list OWNER_ONLY_SDDL spells: protected, for SYSTEM and the owner.   *)
OwnerOnlyList == {}

(* On Windows with that list, which nothing is handed down to.             *)
WindowsMakes(m, type) ==
  [type |-> type, owner |-> TokenOwner(m), open |-> OwnerOnlyList, hands |-> FALSE]

Made(m, type, hands) == IF Unix(m) THEN UnixMakes(type, hands) ELSE WindowsMakes(m, type)
---------------------------------------------------------------------------
(* What is asked of a node.                                                *)

(* The answer to a question about the list of a node that has none.        *)
NoList(m) == IF m.os = "linux" THEN "NODATA" ELSE "ENOENT"

\* Variant: the list of a node is not asked for.
RejectsListNever(m, node) == FALSE

(* reject_access_acl: having no list is reported as an error, and is the   *)
(* answer that is wanted.                                                  *)
RejectsList(m, node) ==
  LET answer == IF "list" \in node.open THEN "entries" ELSE NoList(m)
  IN answer \notin {"NODATA", "ENOENT"}

UnixAccepts(m, node, type) ==
  /\ node.type = type /\ node.owner = "user" /\ "mode" \notin node.open
  /\ ~RejectsList(m, node)

\* Variant: only what the user of the process owns is ours.
OursByUser(m, node) == node.owner = TokenUser

(* The token's user, or the owner Windows gives what the token makes.      *)
Ours(m, node) == node.owner \in {TokenUser, TokenOwner(m)}

(* validate_aces: protected, and two entries, of the owner and the system. *)
OwnerOnly(node) == node.open = OwnerOnlyList

WindowsAccepts(m, node, type) == node.type = type /\ Ours(m, node) /\ OwnerOnly(node)

Accepts(m, node, type) ==
  IF Unix(m) THEN UnixAccepts(m, node, type) ELSE WindowsAccepts(m, node, type)
---------------------------------------------------------------------------
(* ensure_directory: one that is there is asked about, never repaired.     *)
Ensured(m, directory) ==
  IF directory.type = "absent" THEN Made(m, "directory", m.hands) ELSE directory

(* The file write leaves; it is Absent where a check on the way refuses.   *)
Written(m, directory) ==
  LET file == Made(m, "file", directory.hands)
  IN IF Accepts(m, directory, "directory") /\ Accepts(m, file, "file") THEN file ELSE Absent

(* Who can read a node, the administrator of a Unix machine left aside.    *)
Readers(m, node) ==
  {node.owner} \cup (IF Unix(m) THEN {} ELSE {"system"})
    \cup (IF node.open = {} THEN {} ELSE {"others"})

(* Whom its owner expects to.                                              *)
Trusted(m) == {"user"} \cup (IF Unix(m) THEN {} ELSE {"system", TokenOwner(m)})
=============================================================================
