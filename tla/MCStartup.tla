------------------------------ MODULE MCStartup -----------------------------
(* The scorer's start for TLC: two versions, one number, one address, and  *)
(* deployments that are unusual in one or two things.                      *)
EXTENDS Startup

MCIntervals == {"3600"}
MCAddresses == {":8081"}
MCVersions == {"ecapa-voxceleb-1", "ecapa-voxceleb-2"}
MCDefault == "ecapa-voxceleb-1"

Plain == [required |-> [name \in Required |-> "set"],
          version |-> "absent", interval |-> "absent", address |-> ":8081",
          offline |-> FALSE]

MCDeployed ==
    UNION {{[e EXCEPT !.offline = flag] : flag \in BOOLEAN} : e \in
        {[Plain EXCEPT !.required[name] = value] :
            name \in Required, value \in {"absent", "", "set"}}
        \cup {[Plain EXCEPT !.interval = value, !.address = ""] :
            value \in {"", "word", "3600"}}
        \cup {[Plain EXCEPT !.address = value, !.version = ""] :
            value \in {"absent", "", "word"}}
        \cup {[Plain EXCEPT !.version = "ecapa-voxceleb-2"]}}
=============================================================================
