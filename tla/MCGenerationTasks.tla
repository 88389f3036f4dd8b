------------------------ MODULE MCGenerationTasks ------------------------
(* Small instances of GenerationTasks for TLC. *)
EXTENDS GenerationTasks, TLC

CONSTANTS u1, u2, u3, j1, j2, j3

\* Price of a plain task, of a plain task plus its fast translation, and of a
\* smart task; 4 credits cover two tasks of most kinds and not every pair.
MCPrice == [plain |-> 1, fast |-> 2, smart |-> 3]
MCCredit == [u \in Users |-> 4]

\* Job codes are random strings that no transaction compares with anything but
\* each other; users other than the owner and contents are alike as well.
Symmetry == Permutations(Jobs) \cup Permutations(Users \ FreeUsers) \cup Permutations(Texts)

Used == {j \in Jobs : row[j] # NoRow}

\* Two tasks of any kind, or three of one content that carry no request ids and
\* were claimed for translation at most once: what the limit for all users needs.
SmallInstance ==
    Cardinality(Used) > 2 =>
        \A j, k \in Used :
            row[j].req = NoRequest /\ row[j].text = row[k].text /\ tr[j].attempts < 2

SmallNext == Next /\ SmallInstance'

SmallSpec == Init /\ [][SmallNext]_vars
===========================================================================
