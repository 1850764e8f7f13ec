---- MODULE MCGithubScrape ----
(* Small instances of GithubScrape: the keys of its tables. *)
EXTENDS GithubScrape, TLC

GithubTables == {"repos", "commits", "users", "rejects"}

GithubKeys ==
  {RepoKey(r) : r \in Repos} \cup {CommitKey(r, d) : r \in Repos, d \in Days}
    \cup {UserKey(l) : l \in Logins} \cup {RejectKey(x) : x \in Repos \cup Logins}

TableOfKey ==
  [k \in GithubKeys |-> CASE k[1] = "repo" -> "repos"
                          [] k[1] = "commit" -> "commits"
                          [] k[1] = "user" -> "users"
                          [] OTHER -> "rejects"]

Symmetry == Permutations(Runs)
====
