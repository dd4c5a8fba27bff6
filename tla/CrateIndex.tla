----------------------------- MODULE CrateIndex -----------------------------
(***************************************************************************)
(* What the cargo registry promises about its index, without requests,     *)
(* locks, files or tarballs.  A crate only grows: a published line is      *)
(* never removed, and only its yanked flag may change ("only yank /        *)
(* unyank may mutate an existing index line", handlers.rs:242-243).        *)
(***************************************************************************)
EXTENDS Naturals

CONSTANTS Names, Keys, canonical_name, Versions, Digests, Logins,
          Owner   \* records of an id and a login

VARIABLE index   \* key -> [entries, owners]

NewCrate == [entries |-> {}, owners |-> {}]

Init == index = [k \in Keys |-> NewCrate]

\* A version not published before, under the spelling the crate has.
Publish(name, vers, digest) ==
  LET k == canonical_name[name]
  IN /\ \A e \in index[k].entries : e.name = name /\ e.vers # vers
     /\ index' = [index EXCEPT ![k].entries = @ \cup
                    {[name |-> name, vers |-> vers, cksum |-> digest,
                      yanked |-> FALSE]}]

SetYanked(k, line, yanked) ==
  /\ line \in index[k].entries
  /\ index' = [index EXCEPT ![k].entries =
                 (@ \ {line}) \cup {[line EXCEPT !.yanked = yanked]}]

RemoveOwners(k, logins) ==
  /\ index[k].entries # {}
  /\ index' = [index EXCEPT ![k].owners = {o \in @ : o.login \notin logins}]

\* Every new owner gets an id above those of the present owners.
AddOwners(k, new) ==
  /\ index[k].entries # {}
  /\ \A o \in new, p \in index[k].owners : p.id < o.id /\ p.login # o.login
  /\ \A o, p \in new : o.id = p.id \/ o.login = p.login => o = p
  /\ index' = [index EXCEPT ![k].owners = @ \cup new]

Next ==
  \/ \E n \in Names, v \in Versions, d \in Digests : Publish(n, v, d)
  \/ \E k \in Keys :
       \/ \E line \in index[k].entries, b \in BOOLEAN : SetYanked(k, line, b)
       \/ \E logins \in SUBSET Logins : RemoveOwners(k, logins)
       \/ \E new \in SUBSET Owner : AddOwners(k, new)

Spec == Init /\ [][Next]_index
=============================================================================
