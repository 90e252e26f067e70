------------------------------ MODULE BlockIds ------------------------------
(* What planning, access and replacement agree on: the name of a block.     *)

CONSTANT None   \* an optional value that is absent

\* make_block_id hashes the platform, the build, the role and the ordinal.
make_block_id(role, ordinal) == <<role, ordinal>>
=============================================================================
