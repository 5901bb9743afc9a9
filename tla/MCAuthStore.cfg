SPECIFICATION Spec
CONSTANTS
    Tokens = {t1, t2}
    None = None
    Calls = {c1, c2, c3}
INVARIANTS TypeOK CarriesStoreToken
PROPERTY LoadingSettles
