SPECIFICATION LiveSpec
CONSTANTS
  s1 = s1
  s2 = s2
  q1 = q1
  a1 = a1
  u1 = u1
  u2 = u2
  p1 = p1
  NoAccount = NoAccount
  Sources = {s1, s2}
  Quotas = {q1}
  Accounts = {a1}
  Requests = {r1, r2, r3}
  Queries = {u1, u2}
  Probes = {}
  Configs <- JustEven
  First <- Even
  Statuses = {"neutral", "throttled"}
  MaxInflight = 2
  MaxQueued = 2
  MaxGen = 1
PROPERTIES NobodyStaysQueued
