\* Two calls of any kind, an offer and an invoice, payments of two parts,
\* one crash.
CONSTANTS
    Calls = {c1, c2}
    Offers = {offer}
    Invoices = {invoice}
    MaxParts = 2
    MaxRestarts = 1
    None = None
SPECIFICATION Spec
INVARIANTS FailureIsOwn
CHECK_DEADLOCK FALSE
