\* The two fields of the default prompts, in every kind of browser.
SPECIFICATION Spec
CONSTANTS
    Field = {username, password}
    PasswordField = {password}
    First = username
    Hint = {h1, h2}
    Word = {w, h1}
    None = None
    MaxLength = 2
INVARIANTS TypeOK TypedIsKept HintHiddenOnFocus SubmittedIsTyped PasswordMasked
