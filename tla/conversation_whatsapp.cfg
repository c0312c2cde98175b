SPECIFICATION Spec
CONSTANT Stories <- MCStories
INVARIANT LentIsReturnedOnWhatsApp
