CONSTANTS
  g1 = g1  g2 = g2  r1 = r1  r2 = r2  d1 = d1  d2 = d2
  c1 = c1  c2 = c2  c3 = c3  c4 = c4  c5 = c5
  None = None
  Gateways = {g1, g2}
  Requests = {r1}
  Digests = {d1, d2}
  Calls = {c1, c2, c3, c4}
  GatewayOf <- MCGatewayOf
  RequestOf <- MCRequestOf
  DigestOf <- MCDigestOf
SPECIFICATION FairSpec
INVARIANTS
  
  AnswersAreDurableAndOwn

  
  
  
  
