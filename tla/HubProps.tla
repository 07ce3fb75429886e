------------------------------ MODULE HubProps ------------------------------
(***************************************************************************)
(* What the registry and the hub promise to the users of MCPJungle.        *)
(***************************************************************************)
EXTENDS Hub

\* The server an entry stands for: no pointer or no document, no server.
Wanted == [n \in Name |->
    IF n \in pointer /\ config[n] # None
    THEN [url |-> config[n], bearer |-> IF n \in Secured THEN token[n] ELSE None]
    ELSE None]

\* As long as no call fails, no pointer is left of an entry whose component is
\* gone, in whatever order entries come and go; and the entry of an installed
\* component has its pointer, if its name starts with no other entry's: the
\* withdrawal of "kb" takes the pointer of "kb-mail" along.
RegistryMatchesRecord ==
    faults = 0 => \A n \in Name : job[n] = "none" =>
        /\ n \in pointer => n \in installed
        /\ n \in installed /\ (\A m \in Name : n \notin Longer[m]) => n \in pointer

\* As long as no call fails and the hub runs on, MCPJungle holds between two
\* cycles exactly the servers that the last cycle read: none is left over
\* from an earlier cycle, none is missing, none is out of date.
MirrorsCycle ==
    faults = 0 /\ restarts = 0 /\ pc = "idle" => servers = resolved

\* When the registry comes to rest, the hub does: every published entry is
\* then registered as published whenever the hub is between two cycles,
\* whichever calls failed before and however often the hub was restarted.
ServesPublished ==
    <>[](pc = "idle" => \A n \in Name : Wanted[n] # None => servers[n] = Wanted[n])

\* When the registry comes to rest after a history without failures or
\* restarts, MCPJungle has the published servers and no others whenever the
\* hub is between two cycles.
MirrorsUndisturbed ==
    <>[](pc = "idle" /\ faults = 0 /\ restarts = 0 => servers = Wanted)

=============================================================================
