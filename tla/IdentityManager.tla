---------------------------- MODULE IdentityManager ----------------------------
(* IdentityManager of the SDK over its vault: new() loads an identity or        *)
(* generates and saves one, rotate() archives the old identity, saves the new   *)
(* one and then uses it. The process may stop between any two file operations,  *)
(* and each of them may fail.                                                   *)
EXTENDS Integers

CONSTANTS MaxDrawn,  \* bound: identities drawn by generate()
          NoIdentity \* no value

\* An identity is known by its 32-byte seed. The seed is drawn at random, or it is
\* itself the hash of an identity, which load_identity takes for a seed.
Seed == [draw : 0..MaxDrawn, hashed : 0..1]

ASSUME IdentityAssumption == MaxDrawn \in Nat /\ NoIdentity \notin Seed

VARIABLES kind,      \* vault_type of the configuration
          stored,    \* what the key file or the variable holds; NoIdentity: nothing load accepts
          archived,  \* identities whose public key is in the archive
          step,      \* how far new() or rotate() has come
          identity,  \* the identity in use
          generated, \* whether it was generated rather than loaded
          fresh,     \* the identity new() or rotate() has just generated
          drawn,     \* identities drawn so far
          last,      \* history: what the process had when it last stopped
          retired    \* history: identities a completed rotate() replaced

process == <<step, identity, generated, fresh>>
history == <<last, retired>>
vars == <<kind, stored, archived, process, drawn, history>>

Kinds == {"file", "env"}

Steps == {"down", "up", "creating", "create_writing", "created",
          "rotating", "rotate_saving", "rotate_writing", "rotated"}

Maybe(S) == S \cup {NoIdentity}

--------------------------------------------------------------------------------

\* The hash is the SHA-256 of the public key, which comes from the seed.
HashOf(id) == [id EXCEPT !.hashed = @ + 1]

\* generate: a seed nobody has drawn before.
Generated == [draw |-> drawn + 1, hashed |-> 0]

Generate ==
  /\ drawn < MaxDrawn
  /\ drawn' = drawn + 1
  /\ fresh' = Generated

\* The operator may have put a seed where the vault looks for one.
Operators == [draw |-> 0, hashed |-> 0]

Init ==
  /\ kind \in Kinds
  /\ stored \in {NoIdentity, Operators}
  /\ archived = {}
  /\ step = "down"
  /\ identity = NoIdentity
  /\ generated = FALSE
  /\ fresh = NoIdentity
  /\ drawn = 0
  /\ last = NoIdentity
  /\ retired = {}

\* load_identity succeeds.
Load ==
  /\ step = "down"
  /\ stored # NoIdentity
  /\ identity' = stored
  /\ generated' = FALSE
  /\ step' = "up"
  /\ UNCHANGED <<kind, stored, archived, fresh, drawn, history>>

\* load_identity fails: there is nothing, it is malformed, or reading failed.
LoadFails ==
  /\ step = "down"
  /\ Generate
  /\ step' = "creating"
  /\ UNCHANGED <<kind, stored, archived, identity, generated, history>>

\* rotate() begins.
Rotate ==
  /\ step = "up"
  /\ Generate
  /\ step' = "rotating"
  /\ UNCHANGED <<kind, stored, archived, identity, generated, history>>

\* `?` on an error: new() fails, or rotate() returns with everything as it is.
Fail ==
  /\ step' = IF identity = NoIdentity THEN "down" ELSE "up"
  /\ fresh' = NoIdentity
  /\ UNCHANGED <<identity, generated, drawn, history>>

\* Faulty variant of Archive: rotate() goes on when the archive cannot be written.
ArchiveIgnoringErrors ==
  /\ step = "rotating"
  /\ archived' \in {archived, archived \cup {identity}}
  /\ step' = "rotate_saving"
  /\ UNCHANGED <<kind, stored, identity, generated, fresh, drawn, history>>

\* archive_identity writes the public key under its own name.
Archive ==
  /\ step = "rotating"
  /\ UNCHANGED <<kind, stored>>
  /\ \/ /\ archived' = archived \cup {identity}
        /\ step' = "rotate_saving"
        /\ UNCHANGED <<identity, generated, fresh, drawn, history>>
     \/ Fail /\ UNCHANGED archived

Saving == step \in {"creating", "rotate_saving"}
Writing == step \in {"create_writing", "rotate_writing"}

\* FileVault::save_identity, first half: fs::write opens the file and empties it.
OpenKeyFile ==
  /\ Saving
  /\ kind = "file"
  /\ UNCHANGED <<kind, archived>>
  /\ \/ /\ stored' = NoIdentity
        /\ step' = IF step = "creating" THEN "create_writing" ELSE "rotate_writing"
        /\ UNCHANGED <<identity, generated, fresh, drawn, history>>
     \/ Fail /\ UNCHANGED stored

\* save_identity has returned; the new identity is not in use yet.
Saved ==
  /\ step' = IF step \in {"creating", "create_writing"} THEN "created" ELSE "rotated"
  /\ UNCHANGED <<identity, generated, fresh, drawn, history>>

\* Faulty variant of WriteKey: the identity in use is written once more.
WriteKeyInUse ==
  /\ Writing
  /\ UNCHANGED <<kind, archived>>
  /\ \/ stored' = (IF identity = NoIdentity THEN HashOf(fresh) ELSE identity) /\ Saved
     \/ Fail /\ UNCHANGED stored

\* Second half: the hash of the identity goes into the file.
WriteKey ==
  /\ Writing
  /\ UNCHANGED <<kind, archived>>
  /\ \/ stored' = HashOf(fresh) /\ Saved
     \/ Fail /\ UNCHANGED stored

\* EnvVault::save_identity only logs.
SaveNothing ==
  /\ Saving
  /\ kind = "env"
  /\ Saved
  /\ UNCHANGED <<kind, stored, archived>>

\* Faulty variant of Use: rotate() goes on with the old identity.
UseForgotten ==
  /\ step \in {"created", "rotated"}
  /\ identity' = IF step = "created" THEN fresh ELSE identity
  /\ generated' = IF step = "created" THEN TRUE ELSE generated
  /\ fresh' = NoIdentity
  /\ step' = "up"
  /\ UNCHANGED <<kind, stored, archived, drawn, history>>

\* new() returns, or rotate() swaps: the saved identity is the one in use.
Use ==
  /\ step \in {"created", "rotated"}
  /\ identity' = fresh
  /\ generated' = TRUE
  /\ fresh' = NoIdentity
  /\ step' = "up"
  /\ retired' = IF step = "created" THEN retired ELSE retired \cup {identity}
  /\ UNCHANGED <<kind, stored, archived, drawn, last>>

\* What has been saved and is not in use yet.
NotYetUsed == IF step \in {"created", "rotated"} THEN fresh ELSE NoIdentity

\* The process stops, or crashes in the middle of new() or rotate().
Exit ==
  /\ step # "down"
  /\ step' = "down"
  /\ identity' = NoIdentity
  /\ fresh' = NoIdentity
  /\ generated' = FALSE
  /\ last' = IF step \in {"creating", "create_writing"} THEN last
             ELSE [identity |-> identity, generated |-> generated, saved |-> NotYetUsed]
  /\ UNCHANGED <<kind, stored, archived, drawn, retired>>

Next ==
  \/ Load
  \/ LoadFails
  \/ Rotate
  \/ Archive
  \/ OpenKeyFile
  \/ WriteKey
  \/ SaveNothing
  \/ Use
  \/ Exit

Spec == Init /\ [][Next]_vars

--------------------------------------------------------------------------------

\* Every variable keeps its type; new() and rotate() hold the identities that
\* their progress says.
TypeOK ==
  /\ kind \in Kinds
  /\ stored \in Maybe(Seed)
  /\ archived \subseteq Seed
  /\ step \in Steps
  /\ identity \in Maybe(Seed)
  /\ identity # NoIdentity <=> step \in {"up", "rotating", "rotate_saving", "rotate_writing", "rotated"}
  /\ fresh \in Maybe(Seed)
  /\ fresh # NoIdentity <=> step \notin {"down", "up"}
  /\ generated \in BOOLEAN
  /\ drawn \in 0..MaxDrawn
  /\ last \in Maybe([identity : Maybe(Seed), generated : BOOLEAN, saved : Maybe(Seed)])
  /\ retired \subseteq Seed

\* Whatever fails, and wherever a crash would strike, the identity in use is one
\* the key file still names (by its seed or by its hash), or its public key is in
\* the archive already (mod.rs: rotate archives before it saves).
NamedOrArchived ==
  kind = "file" /\ identity # NoIdentity =>
    stored \in {identity, HashOf(identity)} \/ identity \in archived

\* An identity that a rotation replaced is archived and never comes back, over any
\* number of restarts and failed rotations (file vault; with the env vault a
\* restart does bring it back).
RetiredForGood ==
  /\ retired \subseteq archived
  /\ kind = "file" => identity \notin retired

\* The identity a restart loads if the file can be read: what was saved last, by
\* its hash, or what was in use.
Reloaded(l) ==
  IF l.saved # NoIdentity THEN HashOf(l.saved)
  ELSE IF l.generated THEN HashOf(l.identity)
  ELSE l.identity

\* What a restart does to the identity when the file can be read: one that was
\* loaded stays, one that was generated becomes the identity whose seed is its hash
\* (vault.rs: save_identity stores hash_hex, load_identity calls from_seed). A
\* rotation cut short changes that only if the stop came after the file was written
\* and before the swap: then the file names the identity being rotated to, and the
\* old one is in the archive.
RestartKeepsOrHashes ==
  [][kind = "file" /\ step = "down" /\ step' = "up" /\ last # NoIdentity =>
       /\ identity' = Reloaded(last)
       /\ last.saved # NoIdentity /\ last.identity # NoIdentity =>
            last.identity \in archived]_vars

\* vault.rs says of load_identity "Load an existing identity from storage", and of
\* save_identity "Save an identity to storage": what is loaded after a restart is
\* what was in use before.
IdentitySurvivesRestart ==
  [][kind = "file" /\ step = "down" /\ step' = "up"
       /\ last # NoIdentity /\ last.saved = NoIdentity =>
       identity' = last.identity]_vars

================================================================================
