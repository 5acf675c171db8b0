\* Two addresses and two calls to Auth at a time, with fairness.
CONSTANTS
  Emails = {e, f}
  Malformed = malformed
  Passwords <- MCPasswords
  NoOne = noone
  MaxCalls = 2
SPECIFICATION FairSpec
INVARIANTS
  MainHasUser
  LoginMeansSignedOut
PROPERTIES
  SignInResolves
