----------------------------- MODULE SyncPromise -----------------------------
(***************************************************************************)
(* What the synchronisation promises, without cycles, plans, caches of     *)
(* archives or base records: one catalog of skills whose versions are      *)
(* stored before they are listed, devices that look at it, swap their      *)
(* copies for listed versions and publish their own.  Devices do not lock  *)
(* the catalog: what a device publishes is an answer to what it last saw.  *)
(***************************************************************************)
CONSTANTS Devices, Skills, Versions, Absent, InitialCatalog, InitialCopies

VARIABLES
    catalog,    \* the version listed of each skill, or Absent
    store,      \* every <<skill, version>> anybody can fetch
    copy,       \* copy[d][s]: what d's user sees
    view,       \* view[d]: the catalog as d last saw it
    swap        \* swap[d]: the copy d is replacing, <<s, version>>, or <<>>

pvars == <<catalog, store, copy, view, swap>>

Listed(hashes) == {<<s, hashes[s]>> : s \in {t \in Skills : hashes[t] # Absent}}

Init ==
    /\ catalog = InitialCatalog
    /\ store = Listed(InitialCatalog)
    /\ copy = InitialCopies
    /\ view = [d \in Devices |-> [s \in Skills |-> Absent]]
    /\ swap = [d \in Devices |-> <<>>]

\* A user changes, adds or deletes a skill, but not one that is being replaced.
Edit(d) ==
    /\ swap[d] = <<>>
    /\ \E s \in Skills, content \in Versions \cup {Absent} :
          copy' = [copy EXCEPT ![d][s] = content]
    /\ UNCHANGED <<catalog, store, view, swap>>

Look(d) ==
    /\ swap[d] = <<>>
    /\ view' = [view EXCEPT ![d] = catalog]
    /\ UNCHANGED <<catalog, store, copy, swap>>

\* A copy gives way to another version only if central can give it back.
Withdraw(d, s) ==
    /\ swap[d] = <<>>
    /\ view[d][s] # Absent
    /\ copy[d][s] # Absent => <<s, copy[d][s]>> \in store
    /\ swap' = [swap EXCEPT ![d] = <<s, copy[d][s]>>]
    /\ copy' = [copy EXCEPT ![d][s] = Absent]
    /\ UNCHANGED <<catalog, store, view>>

\* The swap ends with the version that was listed, with the old copy, or, when
\* the process dies, with neither.
EndSwap(d) ==
    /\ swap[d] # <<>>
    /\ \/ /\ <<swap[d][1], view[d][swap[d][1]]>> \in store
          /\ copy' = [copy EXCEPT ![d][swap[d][1]] = view[d][swap[d][1]]]
       \/ copy' = [copy EXCEPT ![d][swap[d][1]] = swap[d][2]]
       \/ copy' = copy
    /\ swap' = [swap EXCEPT ![d] = <<>>]
    /\ UNCHANGED <<catalog, store, view>>

Store(d, s) ==
    /\ copy[d][s] # Absent
    /\ store' = store \cup {<<s, copy[d][s]>>}
    /\ UNCHANGED <<catalog, copy, view, swap>>

\* The new catalog is what d saw, except for skills of which it lists d's own
\* copy; nothing listed is dropped, and everything listed can be fetched.
Publish(d) ==
    /\ swap[d] = <<>>
    /\ catalog' \in [Skills -> Versions \cup {Absent}]
    /\ \A s \in Skills :
          catalog'[s] # view[d][s] => /\ catalog'[s] = copy[d][s]
                                      /\ catalog'[s] # Absent
    /\ Listed(catalog') \subseteq store
    /\ UNCHANGED <<store, copy, view, swap>>

Next ==
    \E d \in Devices :
       \/ Edit(d) \/ Look(d) \/ EndSwap(d) \/ Publish(d)
       \/ \E s \in Skills : Withdraw(d, s) \/ Store(d, s)

Spec == Init /\ [][Next]_pvars
=============================================================================
