-------------------------- MODULE MCAccountManager --------------------------
(* Small instances of the account commands. *)
EXTENDS AccountManager

NamedAndEmpty == {"A", EmptyAlias}
Named == {"A"}

AllCommands == {"create", "createImplicit", "createTransition", "convert", "delegate",
                "allot", "claim", "destroy"}
=============================================================================
