----------------------------- MODULE MCRouting -----------------------------
(* A small instance of Routing for TLC. *)
EXTENDS Routing, TLC

\* A client's session depends on the settings file as it is when the client is
\* started, and nothing about the file on a session or on the running proxy.
\* Once the files have gone through more than a session is started after, they
\* are followed without one, under one proxy and with one port.
FilesOrSession ==
    runs + saves > MaxEarlier =>
        /\ session = NoSession
        /\ proxy.port = 8787 /\ proxy.project = NoName
        /\ \A i \in Inodes : disk[i] # Partial => disk[i].base # 8788
        /\ \A c \in Commands : data[c].base # 8788

Symmetry == Permutations(Commands) \union Permutations(Inodes)
=============================================================================
